---- MODULE Spec2Model ----
(***************************************************************************)
(* Model of the marvin_ia message pipeline: keyword extraction, the        *)
(* response cache and fact store of ResponseModel, the OpenAI adapter      *)
(* getOpenAIResponse, the translator traduzirParaModeloDados and the       *)
(* orchestrator processMessage.                                            *)
(*                                                                         *)
(* JavaScript strings are TLA+ strings and are computed on character by    *)
(* character (Len, Slice, \o).  A missing string is Undefined, a missing   *)
(* object is NoObject, a missing array of strings is NoArray and a missing *)
(* array of entries is NoEntradas.                                         *)
(***************************************************************************)
EXTENDS Integers, Sequences, FiniteSets, TLC

Undefined == "<undefined>"
NoObject == [undefined |-> TRUE]
NoArray == <<Undefined>>
\* a field the JSON of the classifier holds as a number and not as a string
NumberValue == "<number>"
NoEntradas == <<[missing |-> TRUE]>>

\* JavaScript truthiness of a string-valued field and of an object-valued field.
Falsy(x) == x = Undefined \/ x = ""
Truthy(x) == ~Falsy(x)

Min(a, b) == IF a < b THEN a ELSE b

(***************************************************************************)
(* String primitives                                                       *)
(***************************************************************************)
\* s.slice(m - 1, n): the characters m..n of s that exist
Slice(s, m, n) ==
  SubSeq(s, IF m < 1 THEN 1 ELSE m, IF n > Len(s) THEN Len(s) ELSE n)

CharAt(s, i) == Slice(s, i, i)

CharsOf(s) == {CharAt(s, i) : i \in 1..Len(s)}

StartsWith(s, p) == Len(s) >= Len(p) /\ Slice(s, 1, Len(p)) = p

\* s.substring(n), n counted from 0
Substring(s, n) == Slice(s, n + 1, Len(s))

WhiteSpace == {" ", "\t", "\n", "\r"}

RECURSIVE TrimStart(_)
TrimStart(s) ==
  IF Len(s) > 0 /\ CharAt(s, 1) \in WhiteSpace THEN TrimStart(Substring(s, 1)) ELSE s

RECURSIVE TrimEnd(_)
TrimEnd(s) ==
  IF Len(s) > 0 /\ CharAt(s, Len(s)) \in WhiteSpace
  THEN TrimEnd(Slice(s, 1, Len(s) - 1))
  ELSE s

Trim(s) == TrimEnd(TrimStart(s))

UpperChars == "ABCDEFGHIJKLMNOPQRSTUVWXYZÁÀÂÃÉÊÍÓÔÕÚÇ"
LowerChars == "abcdefghijklmnopqrstuvwxyzáàâãéêíóôõúç"

LowerMap == [c \in CharsOf(UpperChars) |->
               CharAt(LowerChars, CHOOSE i \in 1..Len(UpperChars) : CharAt(UpperChars, i) = c)]
UpperMap == [c \in CharsOf(LowerChars) |->
               CharAt(UpperChars, CHOOSE i \in 1..Len(LowerChars) : CharAt(LowerChars, i) = c)]

ChangeCase(map, c) == IF c \in DOMAIN map THEN map[c] ELSE c

RECURSIVE ToLowerCase(_)
ToLowerCase(s) ==
  IF s = "" THEN ""
  ELSE ChangeCase(LowerMap, SubSeq(s, 1, 1)) \o ToLowerCase(SubSeq(s, 2, Len(s)))

RECURSIVE ToUpperCase(_)
ToUpperCase(s) ==
  IF Len(s) = 0 THEN ""
  ELSE ChangeCase(UpperMap, CharAt(s, 1)) \o ToUpperCase(Substring(s, 1))

\* the regular-expression class \w
WordChars == CharsOf("abcdefghijklmnopqrstuvwxyzABCDEFGHIJKLMNOPQRSTUVWXYZ0123456789_")
Letters == CharsOf("abcdefghijklmnopqrstuvwxyzABCDEFGHIJKLMNOPQRSTUVWXYZ")
Digits == CharsOf("0123456789")

\* s.indexOf(sub) counted from 0, -1 when absent
IndexOf(s, sub) ==
  LET hits == {i \in 1..(Len(s) - Len(sub) + 1) : SubSeq(s, i, i + Len(sub) - 1) = sub}
  IN IF hits = {} THEN -1 ELSE (CHOOSE i \in hits : \A j \in hits : i <= j) - 1

Includes(s, sub) == IndexOf(s, sub) # -1

\* s.split(sep) for a non-empty separator
RECURSIVE Split(_, _)
Split(s, sep) ==
  LET i == IndexOf(s, sep)
  IN IF i = -1 THEN <<s>>
     ELSE <<Slice(s, 1, i)>> \o Split(Substring(s, i + Len(sep)), sep)

\* the longest prefix of s made of characters for which the set test holds
RECURSIVE SpanIn(_, _)
SpanIn(s, set) ==
  IF s # "" /\ SubSeq(s, 1, 1) \in set
  THEN SubSeq(s, 1, 1) \o SpanIn(SubSeq(s, 2, Len(s)), set)
  ELSE ""

RECURSIVE SpanNotIn(_, _)
SpanNotIn(s, set) ==
  IF Len(s) > 0 /\ CharAt(s, 1) \notin set
  THEN CharAt(s, 1) \o SpanNotIn(Substring(s, 1), set)
  ELSE ""

RECURSIVE RemoveChars(_, _)
RemoveChars(s, set) ==
  IF s = "" THEN ""
  ELSE (IF SubSeq(s, 1, 1) \in set THEN "" ELSE SubSeq(s, 1, 1))
       \o RemoveChars(SubSeq(s, 2, Len(s)), set)

\* s.replace(/\s{2,}/g, ' ')
RECURSIVE CollapseSpaces(_)
CollapseSpaces(s) ==
  IF s = "" THEN ""
  ELSE IF SubSeq(s, 1, 1) \notin WhiteSpace
  THEN SubSeq(s, 1, 1) \o CollapseSpaces(SubSeq(s, 2, Len(s)))
  ELSE IF Len(SpanIn(s, WhiteSpace)) >= 2
  THEN " " \o CollapseSpaces(Substring(s, Len(SpanIn(s, WhiteSpace))))
  ELSE SubSeq(s, 1, 1) \o CollapseSpaces(SubSeq(s, 2, Len(s)))

RECURSIVE JoinWith(_, _)
JoinWith(seq, sep) ==
  IF Len(seq) = 0 THEN ""
  ELSE IF Len(seq) = 1 THEN seq[1]
  ELSE seq[1] \o sep \o JoinWith(Tail(seq), sep)

RECURSIVE DigitsValue(_)
DigitsValue(s) ==
  IF Len(s) = 0 THEN 0
  ELSE DigitsValue(Slice(s, 1, Len(s) - 1)) * 10
       + (CHOOSE d \in 0..9 : CharAt("0123456789", d + 1) = CharAt(s, Len(s)))

RECURSIVE NatToString(_)
NatToString(n) ==
  IF n < 10 THEN CharAt("0123456789", n + 1)
  ELSE NatToString(n \div 10) \o CharAt("0123456789", (n % 10) + 1)

SeqToSet(seq) == {seq[i] : i \in 1..Len(seq)}

\* The element of a singleton.  Only({e(x) : x \in {v}}) is e with x naming the
\* value of v, which is computed once however often e uses it.
Only(S) == CHOOSE v \in S : TRUE

(***************************************************************************)
(* Keyword extractor                                                       *)
(***************************************************************************)
STOP_WORDS ==
  {"a", "ao", "aos", "aquela", "aquelas", "aquele", "aqueles", "aquilo", "as", "até",
   "com", "como", "da", "das", "de", "dela", "delas", "dele", "deles", "depois",
   "do", "dos", "e", "ela", "elas", "ele", "eles", "em", "entre", "era",
   "eram", "éramos", "essa", "essas", "esse", "esses", "esta", "estas", "este",
   "estou", "eu", "foi", "fomos", "for", "foram", "fosse", "fossem", "fui",
   "há", "isso", "isto", "já", "lhe", "lhes", "me", "mesmo", "meu", "meus",
   "minha", "minhas", "muito", "muitos", "na", "não", "nas", "nem", "no", "nos",
   "nós", "nossa", "nossas", "nosso", "nossos", "num", "numa", "o", "os", "ou",
   "para", "pela", "pelas", "pelo", "pelos", "por", "qual", "quando", "que",
   "quem", "se", "seja", "sejam", "sejamos", "sem", "será", "serão", "serei",
   "seremos", "seria", "seriam", "seríamos", "seu", "seus", "só", "somos", "sou",
   "sua", "suas", "também", "te", "tem", "tém", "temos", "tenho", "teu", "teus",
   "tu", "tua", "tuas", "um", "uma", "umas", "uns", "você", "vocês", "vos"}

\* the class [.,\/#!$%\^&\*;:{}=\-_~()] and the grave accent, which a TLA+ string
\* cannot hold; no text of the model contains one
KeywordPunctuation == CharsOf(".,/#!$%^&*;:{}=-_~()")

DefaultMaxKeywords == 10

\* the distinct elements of a sequence, in first-seen order
RECURSIVE Distinct(_)
Distinct(seq) ==
  IF Len(seq) = 0 THEN <<>>
  ELSE LET front == Distinct(Slice(seq, 1, Len(seq) - 1))
           last == seq[Len(seq)]
       IN IF last \in SeqToSet(front) THEN front ELSE Append(front, last)

Count(seq, x) == Cardinality({i \in 1..Len(seq) : seq[i] = x})

\* a property name that Object.keys lists first, in ascending numeric order
IsIndexKey(w) ==
  /\ Len(w) > 0
  /\ CharsOf(w) \subseteq Digits
  /\ (Len(w) = 1 \/ CharAt(w, 1) # "0")
  /\ Len(w) <= 9

RECURSIVE SortByValue(_)
SortByValue(set) ==
  IF set = {} THEN <<>>
  ELSE LET m == CHOOSE x \in set : \A y \in set : DigitsValue(x) <= DigitsValue(y)
       IN <<m>> \o SortByValue(set \ {m})

\* Object.keys(wordFrequency) for the words inserted in the order of seq
ObjectKeys(seq) ==
  LET d == Distinct(seq)
  IN SortByValue({w \in SeqToSet(d) : IsIndexKey(w)})
     \o SelectSeq(d, LAMBDA w : ~IsIndexKey(w))

\* a stable sort of keys by descending frequency in words
RECURSIVE SortByFrequency(_, _, _)
SortByFrequency(keys, words, f) ==
  IF f = 0 THEN <<>>
  ELSE SelectSeq(keys, LAMBDA w : Count(words, w) = f) \o SortByFrequency(keys, words, f - 1)

extractKeywords(text, maxKeywords) ==
  IF Falsy(text) THEN <<>>
  ELSE Only({Slice(SortByFrequency(ObjectKeys(filteredWords), filteredWords,
                                   Len(filteredWords)),
                   1, maxKeywords) :
             filteredWords \in
               {SelectSeq(Split(CollapseSpaces(RemoveChars(ToLowerCase(text),
                                                           KeywordPunctuation)), " "),
                          LAMBDA w : Len(w) > 2 /\ w \notin STOP_WORDS)}})

(***************************************************************************)
(* ResponseModel: the collections responses and facts.  A collection is    *)
(* the sequence of its documents in insertion order; the position of a     *)
(* document is its _id.  A store call that throws is the argument          *)
(* storeFails of the method that makes it.                                 *)
(***************************************************************************)
MaxSearchKeywords == 10
MatchPercent == 60

\* Math.ceil(n * 0.6)
MinKeywordsMatch(n) == (n * MatchPercent + 99) \div 100

NoIndex == 0

FirstIndex(set) == IF set = {} THEN NoIndex ELSE CHOOSE i \in set : \A j \in set : i <= j

\* a lookup that considers the entries classified global alone
findResponseByKeywordsGlobalOnly(coll, keywords, storeFails) ==
  IF storeFails THEN [success |-> FALSE, index |-> NoIndex]
  ELSE LET searchKeywords == Slice(keywords, 1, Min(Len(keywords), MaxSearchKeywords))
           minKeywordsMatch == MinKeywordsMatch(Len(searchKeywords))
           matchCount(i) == Len(SelectSeq(coll[i].palavras_chave,
                                          LAMBDA kw : kw \in SeqToSet(searchKeywords)))
           filteredResponses == {i \in DOMAIN coll :
                                   /\ coll[i].classificacao = "global"
                                   /\ matchCount(i) > 0
                                   /\ matchCount(i) >= minKeywordsMatch}
       IN [success |-> filteredResponses # {}, index |-> FirstIndex(filteredResponses)]

findResponseByKeywords(coll, keywords, storeFails) ==
  IF storeFails THEN [success |-> FALSE, index |-> NoIndex]
  ELSE LET searchKeywords == Slice(keywords, 1, Min(Len(keywords), MaxSearchKeywords))
           minKeywordsMatch == MinKeywordsMatch(Len(searchKeywords))
           responses == {i \in DOMAIN coll :
                           SeqToSet(coll[i].palavras_chave) \cap SeqToSet(searchKeywords) # {}}
           matchCount(i) == Len(SelectSeq(coll[i].palavras_chave,
                                          LAMBDA kw : kw \in SeqToSet(searchKeywords)))
           filteredResponses == {i \in responses : matchCount(i) >= minKeywordsMatch}
       IN [success |-> filteredResponses # {}, index |-> FirstIndex(filteredResponses)]

\* every save inserts: the lookup of an entry for the keywords is left out
saveResponseAlwaysInserts(coll, responseData, now, lookupFails, writeFails) ==
  IF writeFails
  THEN [coll |-> coll, success |-> FALSE, updated |-> FALSE, threw |-> FALSE]
  ELSE [coll |-> Append(coll, [palavras_chave |-> responseData.palavras_chave,
                               resposta |-> responseData.resposta,
                               classificacao |-> responseData.classificacao,
                               created_at |-> now, last_updated |-> now]),
        success |-> TRUE, updated |-> FALSE, threw |-> FALSE]

\* an update in place that also stores the keywords of the new response
saveResponseReplacesKeywords(coll, responseData, now, lookupFails, writeFails) ==
  LET existingResponse == findResponseByKeywords(coll, responseData.palavras_chave, lookupFails)
  IN IF writeFails
     THEN [coll |-> coll, success |-> FALSE, updated |-> FALSE, threw |-> FALSE]
     ELSE IF existingResponse.success
     THEN [coll |-> [coll EXCEPT ![existingResponse.index] =
                       [@ EXCEPT !.palavras_chave = responseData.palavras_chave,
                                 !.resposta = responseData.resposta,
                                 !.classificacao = responseData.classificacao,
                                 !.last_updated = now]],
           success |-> TRUE, updated |-> TRUE, threw |-> FALSE]
     ELSE [coll |-> Append(coll, [palavras_chave |-> responseData.palavras_chave,
                                  resposta |-> responseData.resposta,
                                  classificacao |-> responseData.classificacao,
                                  created_at |-> now,
                                  last_updated |-> now]),
           success |-> TRUE, updated |-> FALSE, threw |-> FALSE]

saveResponse(coll, responseData, now, lookupFails, writeFails) ==
  LET existingResponse == findResponseByKeywords(coll, responseData.palavras_chave, lookupFails)
  IN IF writeFails
     THEN [coll |-> coll, success |-> FALSE, updated |-> FALSE,
           threw |-> FALSE]
     ELSE IF existingResponse.success
     THEN [coll |-> [coll EXCEPT ![existingResponse.index] =
                       [@ EXCEPT !.resposta = responseData.resposta,
                                 !.classificacao = responseData.classificacao,
                                 !.last_updated = now]],
           success |-> TRUE, updated |-> TRUE, threw |-> FALSE]
     ELSE [coll |-> Append(coll, [palavras_chave |-> responseData.palavras_chave,
                                  resposta |-> responseData.resposta,
                                  classificacao |-> responseData.classificacao,
                                  created_at |-> now,
                                  last_updated |-> now]),
           success |-> TRUE, updated |-> FALSE, threw |-> FALSE]

\* existingEntity.alias || []
AliasOrEmpty(alias) == IF alias = NoArray THEN <<>> ELSE alias

\* findOne({nome: entityData.nome}): the first entity with that nome, 0 for none
EntityByNome(coll, nome) ==
  FirstIndex({i \in 1..Len(coll) : coll[i].nome = nome})

saveEntity(coll, entityData, now, lookupFails, writeFails) ==
  IF lookupFails \/ writeFails
  THEN [coll |-> coll, success |-> FALSE, updated |-> FALSE]
  ELSE IF EntityByNome(coll, entityData.nome) # NoIndex
  THEN [coll |-> [coll EXCEPT ![EntityByNome(coll, entityData.nome)] =
                    [@ EXCEPT !.tipo = entityData.tipo,
                              !.alias = Distinct(AliasOrEmpty(@)
                                                 \o AliasOrEmpty(entityData.alias)),
                              !.last_updated = now]],
        success |-> TRUE, updated |-> TRUE]
  ELSE [coll |-> Append(coll, [nome |-> entityData.nome, tipo |-> entityData.tipo,
                               alias |-> entityData.alias,
                               nome_normalizado |-> ToLowerCase(entityData.nome),
                               created_at |-> now, last_updated |-> now]),
        success |-> TRUE, updated |-> FALSE]

\* findOne({$or: [{nome_normalizado}, {alias}]}) with the lower-cased name
findEntityByName(coll, name, storeFails) ==
  IF storeFails THEN [success |-> FALSE, index |-> NoIndex]
  ELSE LET found == {i \in 1..Len(coll) :
                       \/ coll[i].nome_normalizado = ToLowerCase(name)
                       \/ ToLowerCase(name) \in SeqToSet(AliasOrEmpty(coll[i].alias))}
       IN [success |-> found # {}, index |-> FirstIndex(found)]

\* the lookup of saveFact with the value made part of the query
FactQueryMatchesValue(doc, normalizedFact) ==
  /\ doc.tipo = normalizedFact.tipo
  /\ doc.chave = normalizedFact.chave
  /\ doc.entidade = normalizedFact.entidade
  /\ doc.valor = normalizedFact.valor

\* the query of saveFact against one stored document
FactQueryMatches(doc, normalizedFact) ==
  /\ doc.tipo = normalizedFact.tipo
  /\ doc.chave = normalizedFact.chave
  /\ doc.entidade = normalizedFact.entidade
  /\ (normalizedFact.tipo = "propriedade" /\ Truthy(normalizedFact.conceito)
        => doc.conceito = normalizedFact.conceito)

NormalizeRelationships(rels) ==
  [i \in DOMAIN rels |-> [rels[i] EXCEPT !.entidade = Trim(ToLowerCase(rels[i].entidade))]]

\* a $set that always carries the relationships of the new fact, also an empty list
UpdateFactSetsRelationships(doc, normalizedFact, now) ==
  [doc EXCEPT !.valor = normalizedFact.valor, !.last_updated = now,
              !.relacionamentos = NormalizeRelationships(normalizedFact.relacionamentos),
              !.contexto = normalizedFact.contexto]

\* an update that writes the new fact over the record, its creation time included
UpdateFactReplacesRecord(doc, normalizedFact, now) ==
  [doc EXCEPT !.valor = normalizedFact.valor, !.last_updated = now, !.created_at = now,
              !.conceito = normalizedFact.conceito,
              !.relacionamentos = NormalizeRelationships(normalizedFact.relacionamentos),
              !.contexto = normalizedFact.contexto]

\* the $set of saveFact applied to the existing document
UpdateFact(doc, normalizedFact, now) ==
  LET withValue == [doc EXCEPT !.valor = normalizedFact.valor, !.last_updated = now]
      withRels == IF Len(normalizedFact.relacionamentos) > 0
                  THEN [withValue EXCEPT !.relacionamentos =
                          NormalizeRelationships(normalizedFact.relacionamentos)]
                  ELSE withValue
  IN IF normalizedFact.contexto # NoObject
     THEN [withRels EXCEPT !.contexto =
             [normalizedFact.contexto EXCEPT
                !.certeza = "ALTA",
                !.timestamp = IF normalizedFact.contexto.timestamp = 0
                              THEN now ELSE normalizedFact.contexto.timestamp]]
     ELSE withRels

InsertFact(normalizedFact, now) ==
  [tipo |-> normalizedFact.tipo,
   chave |-> normalizedFact.chave,
   entidade |-> normalizedFact.entidade,
   valor |-> normalizedFact.valor,
   relacionamentos |-> normalizedFact.relacionamentos,
   contexto |-> normalizedFact.contexto,
   conceito |-> normalizedFact.conceito,
   categoria |-> normalizedFact.categoria,
   created_at |-> now,
   last_updated |-> now]

\* the write of saveFact made as one upsert: the record is looked up again when
\* the write is made
writeFactUpsert(coll, existingFact, normalizedFact, now) ==
  IF \E i \in DOMAIN coll : FactQueryMatches(coll[i], normalizedFact)
  THEN [coll EXCEPT ![FirstIndex({i \in DOMAIN coll : FactQueryMatches(coll[i], normalizedFact)})] =
          UpdateFact(@, normalizedFact, now)]
  ELSE Append(coll, InsertFact(normalizedFact, now))

\* the write of saveFact: updateOne of the record findOne returned, or insertOne
writeFact(coll, existingFact, normalizedFact, now) ==
  IF existingFact # NoIndex
  THEN [coll EXCEPT ![existingFact] = UpdateFact(@, normalizedFact, now)]
  ELSE Append(coll, InsertFact(normalizedFact, now))

\* saveFact without the lookup of the existing record
saveFactInsertOnly(coll, factData, now, storeFails) ==
  IF Falsy(factData.tipo) \/ Falsy(factData.chave) \/ Falsy(factData.entidade)
     \/ Falsy(factData.valor) \/ storeFails
  THEN [coll |-> coll, success |-> FALSE, updated |-> FALSE]
  ELSE [coll |-> Append(coll, InsertFact(factData, now)),
        success |-> TRUE, updated |-> FALSE]

saveFact(coll, factData, now, storeFails) ==
  IF Falsy(factData.tipo) \/ Falsy(factData.chave) \/ Falsy(factData.entidade)
     \/ Falsy(factData.valor)
  THEN [coll |-> coll, success |-> FALSE, updated |-> FALSE]
  ELSE IF storeFails
  THEN [coll |-> coll, success |-> FALSE, updated |-> FALSE]
  ELSE Only({
         Only({IF existingFact # NoIndex
               THEN [coll |-> [coll EXCEPT ![existingFact] = UpdateFact(@, normalizedFact, now)],
                     success |-> TRUE, updated |-> TRUE]
               ELSE [coll |-> Append(coll, InsertFact(normalizedFact, now)),
                     success |-> TRUE, updated |-> FALSE] :
               existingFact \in
                 {FirstIndex({i \in DOMAIN coll : FactQueryMatches(coll[i], normalizedFact)})}}) :
         normalizedFact \in
           {[factData EXCEPT !.tipo = Trim(ToLowerCase(factData.tipo)),
                             !.chave = Trim(ToLowerCase(factData.chave)),
                             !.entidade = Trim(ToLowerCase(factData.entidade))]}})

\* the result of a find method: success, and the documents found in store order
findFact(coll, tipo, chave, entidade, storeFails) ==
  LET found == FirstIndex({i \in DOMAIN coll :
                             /\ coll[i].tipo = tipo
                             /\ coll[i].chave = chave
                             /\ coll[i].entidade = entidade})
  IN IF storeFails \/ found = NoIndex
     THEN [success |-> FALSE, single |-> TRUE, facts |-> <<>>]
     ELSE [success |-> TRUE, single |-> TRUE, facts |-> <<coll[found]>>]

findRelationalFacts(coll, tipo, entidade, valor, storeFails) ==
  LET valorLowerCase == ToLowerCase(valor)
      matches(doc) ==
        /\ doc.tipo = tipo
        /\ doc.entidade = entidade
        /\ (Truthy(valor) =>
              \/ ToLowerCase(doc.valor) = valorLowerCase
              \/ \E r \in DOMAIN doc.relacionamentos :
                   doc.relacionamentos[r].entidade = valorLowerCase)
      facts == SelectSeq(coll, matches)
  IN IF storeFails \/ Len(facts) = 0
     THEN [success |-> FALSE, single |-> FALSE, facts |-> <<>>]
     ELSE [success |-> TRUE, single |-> FALSE, facts |-> facts]

findConceptProperties(coll, conceito, storeFails) ==
  LET conceitoLowerCase == ToLowerCase(conceito)
      matches(doc) ==
        \/ doc.tipo = "entidade" /\ doc.entidade = conceitoLowerCase
        \/ doc.tipo = "propriedade" /\ doc.entidade = "geral" /\ doc.conceito = conceitoLowerCase
        \/ /\ \E r \in DOMAIN doc.relacionamentos : doc.relacionamentos[r].tipo = "propriedade_de"
           /\ \E r \in DOMAIN doc.relacionamentos :
                doc.relacionamentos[r].entidade = conceitoLowerCase
      facts == SelectSeq(coll, matches)
      definicao == findFact(coll, "definicao", conceitoLowerCase, "geral", FALSE)
  IN IF storeFails THEN [success |-> FALSE, single |-> FALSE, facts |-> <<>>]
     ELSE IF Len(facts) > 0 THEN [success |-> TRUE, single |-> FALSE, facts |-> facts]
     ELSE IF definicao.success
     THEN [success |-> TRUE, single |-> FALSE, facts |-> definicao.facts]
     ELSE [success |-> FALSE, single |-> FALSE, facts |-> <<>>]

(***************************************************************************)
(* Fact translator                                                         *)
(***************************************************************************)
MaxValueLength == 500

tiposPermitidos ==
  {"fato_identidade", "fato_relacao", "fato_definicao", "fato_propriedade", "fato_entidade"}

sujeitosPermitidos == {"USUÁRIO", "TERCEIRO", "CONCEITO"}

RECURSIVE StripLeadingNonWord(_)
StripLeadingNonWord(s) ==
  IF Len(s) > 0 /\ CharAt(s, 1) \notin WordChars THEN StripLeadingNonWord(Substring(s, 1)) ELSE s

RECURSIVE StripTrailingNonWord(_)
StripTrailingNonWord(s) ==
  IF Len(s) > 0 /\ CharAt(s, Len(s)) \notin WordChars
  THEN StripTrailingNonWord(Slice(s, 1, Len(s) - 1))
  ELSE s

\* valor.trim().replace(/^[^\w]+|[^\w]+$/g, '')
normalizarValor(valor) ==
  IF valor = NumberValue THEN valor
  ELSE StripTrailingNonWord(StripLeadingNonWord(Trim(valor)))

\* /[^\w\s]/.test(valor)
HasInvalidChars(valor) ==
  /\ valor # NumberValue
  /\ \E c \in CharsOf(valor) : c \notin WordChars /\ c \notin WhiteSpace

\* the optional chaining entrada.contexto?.certeza and entrada.contexto?.fonte
CertezaOf(entrada) == IF entrada.contexto = NoObject THEN Undefined ELSE entrada.contexto.certeza
FonteOf(entrada) == IF entrada.contexto = NoObject THEN Undefined ELSE entrada.contexto.fonte
ObjetoValorOf(entrada) == IF entrada.objeto = NoObject THEN Undefined ELSE entrada.objeto.valor

\* a gate that turns away the certainty BAIXA alone
CertaintyAcceptedNotLow(entrada) == CertezaOf(entrada) # "BAIXA"

\* the certainty gate
CertaintyAccepted(entrada) == CertezaOf(entrada) = "ALTA"

\* the validation by kind: TRUE when the entry is kept
ValidByKind(entrada) ==
  CASE entrada.tipo = "fato_identidade" ->
         /\ Truthy(entrada.sujeito.valor) /\ Truthy(entrada.predicado.valor)
         /\ ~HasInvalidChars(entrada.predicado.valor)
    [] entrada.tipo = "fato_relacao" ->
         /\ Truthy(entrada.sujeito.valor) /\ Truthy(entrada.predicado.valor)
         /\ entrada.objeto # NoObject /\ Truthy(entrada.objeto.valor)
         /\ ~(entrada.sujeito.tipo = entrada.objeto.tipo
              /\ entrada.sujeito.valor = entrada.objeto.valor)
    [] entrada.tipo = "fato_definicao" ->
         /\ Truthy(entrada.sujeito.valor) /\ Truthy(entrada.predicado.valor)
         /\ Len(entrada.predicado.valor) >= 5
    [] entrada.tipo = "fato_propriedade" ->
         /\ Truthy(entrada.sujeito.valor) /\ Truthy(entrada.predicado.valor)
         /\ Truthy(entrada.predicado.tipo) /\ Len(entrada.predicado.tipo) >= 2
    [] entrada.tipo = "fato_entidade" ->
         Truthy(entrada.sujeito.valor) /\ Truthy(entrada.predicado.valor)
    [] OTHER -> TRUE

EntryAccepted(entrada) ==
  /\ entrada # NoObject
  /\ Truthy(entrada.tipo) /\ entrada.sujeito # NoObject /\ entrada.predicado # NoObject
  /\ CertaintyAccepted(entrada)
  /\ entrada.tipo \in tiposPermitidos
  /\ entrada.sujeito.tipo \in sujeitosPermitidos
  /\ ValidByKind(entrada)

OrDefault(v, default) == IF Truthy(v) THEN v ELSE default

\* the fact built from an accepted entry, before the final checks (the code also
\* writes the normalised values back into the entry, which nothing reads again)
MapEntry(entrada, idUsuario, now) ==
  Only({
    LET base == [tipo |-> Undefined, chave |-> Undefined, entidade |-> Undefined,
                 valor |-> Undefined, relacionamentos |-> <<>>,
                 contexto |-> [certeza |-> "ALTA",
                               fonte |-> OrDefault(FonteOf(entrada), "api"),
                               timestamp |-> now],
                 conceito |-> Undefined, categoria |-> Undefined]
        entidadeDoSujeito == IF entrada.sujeito.tipo = "USUÁRIO"
                             THEN idUsuario ELSE ToLowerCase(sujeitoValor)
    IN CASE entrada.tipo = "fato_identidade" ->
              [base EXCEPT !.tipo = "nome", !.chave = "nome",
                           !.entidade = entidadeDoSujeito,
                           !.valor = predicadoValor]
         [] entrada.tipo = "fato_relacao" ->
              LET chave == OrDefault(entrada.predicado.tipo, "relacao_generica")
              IN [base EXCEPT !.tipo = "relacao", !.chave = chave,
                              !.entidade = entidadeDoSujeito,
                              !.valor = objetoValor,
                              !.relacionamentos =
                                <<[tipo |-> chave,
                                   entidade |-> ToLowerCase(objetoValor),
                                   descricao |-> chave \o " de " \o sujeitoValor]>>]
         [] entrada.tipo = "fato_definicao" ->
              [base EXCEPT !.tipo = "definicao",
                           !.chave = Trim(ToLowerCase(sujeitoValor)),
                           !.entidade = "geral",
                           !.valor = predicadoValor]
         [] entrada.tipo = "fato_propriedade" ->
              LET chave == OrDefault(entrada.predicado.tipo, "caracteristica")
              IN [base EXCEPT !.tipo = "propriedade", !.chave = chave,
                              !.entidade = IF entrada.sujeito.tipo = "USUÁRIO" THEN idUsuario
                                           ELSE IF entrada.sujeito.tipo = "CONCEITO" THEN "geral"
                                           ELSE Trim(ToLowerCase(sujeitoValor)),
                              !.conceito = IF entrada.sujeito.tipo = "CONCEITO"
                                           THEN Trim(ToLowerCase(sujeitoValor)) ELSE Undefined,
                              !.valor = predicadoValor,
                              !.relacionamentos =
                                IF entrada.sujeito.tipo = "CONCEITO"
                                THEN <<[tipo |-> "propriedade_de",
                                        entidade |-> Trim(ToLowerCase(sujeitoValor)),
                                        descricao |-> chave \o " de " \o sujeitoValor]>>
                                ELSE <<>>]
         [] entrada.tipo = "fato_entidade" ->
              [base EXCEPT !.tipo = "entidade",
                           !.chave = OrDefault(entrada.predicado.tipo, "caracteristica"),
                           !.entidade = Trim(ToLowerCase(sujeitoValor)),
                           !.valor = predicadoValor,
                           !.categoria = OrDefault(entrada.sujeito.categoria, "organizacao")] :
    sujeitoValor \in {normalizarValor(entrada.sujeito.valor)},
    predicadoValor \in {normalizarValor(entrada.predicado.valor)},
    objetoValor \in {IF Truthy(ObjetoValorOf(entrada))
                     THEN normalizarValor(entrada.objeto.valor) ELSE ObjetoValorOf(entrada)}})

\* fato.valor.substring(0, 500) + '...' for a value longer than 500 characters
\* a cut that also marks a value of exactly MaxValueLength characters
TruncateValueFromLimit(valor) ==
  IF Len(valor) >= MaxValueLength THEN Slice(valor, 1, MaxValueLength) \o "..." ELSE valor

TruncateValue(valor) ==
  IF Len(valor) > MaxValueLength THEN Slice(valor, 1, MaxValueLength) \o "..." ELSE valor

\* the facts one entry contributes: none when it is discarded
TraduzirEntrada(entrada, idUsuario, now) ==
  IF ~EntryAccepted(entrada) THEN <<>>
  ELSE Only({IF Falsy(fato.tipo) \/ Falsy(fato.chave) \/ Falsy(fato.entidade)
                \/ Falsy(fato.valor)
             THEN <<>>
             ELSE IF Len(Trim(fato.valor)) = 0 THEN <<>>
             ELSE <<[fato EXCEPT !.chave = Trim(ToLowerCase(fato.chave)),
                                 !.valor = TruncateValue(Trim(fato.valor))]>> :
             fato \in {MapEntry(entrada, idUsuario, now)}})

chaveUnica(fato) == fato.tipo \o "|" \o fato.chave \o "|" \o fato.entidade

\* the facts whose key no earlier fact of the batch has, in batch order
RECURSIVE fatosUnicos(_)
fatosUnicos(fatos) ==
  IF Len(fatos) = 0 THEN <<>>
  ELSE LET front == fatosUnicos(Slice(fatos, 1, Len(fatos) - 1))
           last == fatos[Len(fatos)]
       IN IF \E i \in 1..(Len(fatos) - 1) : chaveUnica(fatos[i]) = chaveUnica(last)
          THEN front ELSE Append(front, last)

RECURSIVE TraduzirEntradas(_, _, _)
TraduzirEntradas(entradas, idUsuario, now) ==
  IF Len(entradas) = 0 THEN <<>>
  ELSE TraduzirEntrada(Head(entradas), idUsuario, now)
       \o TraduzirEntradas(Tail(entradas), idUsuario, now)

\* the mapping of an accepted entry calls toLowerCase on the value of the
\* subject, unless the subject is the user in an identity, relation or property,
\* and on the value of the object of a relation: a TypeError when it is a number
entradaThrows(entrada) ==
  /\ EntryAccepted(entrada)
  /\ \/ /\ entrada.sujeito.valor = NumberValue
        /\ (entrada.sujeito.tipo # "USUÁRIO"
            \/ entrada.tipo \in {"fato_definicao", "fato_entidade"})
     \/ entrada.tipo = "fato_relacao" /\ entrada.objeto.valor = NumberValue

\* conhecimento.armazenar of a missing conhecimento is a TypeError, and so is the
\* mapping of an entry that throws: nothing in the loop catches it
traduzirThrows(conhecimento) ==
  \/ conhecimento = NoObject
  \/ /\ conhecimento.armazenar
     /\ conhecimento.entradas # NoEntradas
     /\ \E k \in DOMAIN conhecimento.entradas : entradaThrows(conhecimento.entradas[k])

traduzirParaModeloDados(conhecimento, idUsuario, now) ==
  IF ~conhecimento.armazenar \/ conhecimento.entradas = NoEntradas
     \/ Len(conhecimento.entradas) = 0
  THEN <<>>
  ELSE fatosUnicos(TraduzirEntradas(conhecimento.entradas, idUsuario, now))

(***************************************************************************)
(* OpenAI adapter                                                          *)
(***************************************************************************)
LearningPrefix == "/aprender "

\* userMessage.startsWith('/aprender '), as both getOpenAIResponse and processMessage
\* compute it
IsLearningCommand(text) == StartsWith(text, LearningPrefix)

\* text.substring(10).trim()
StripLearningPrefix(text) == Trim(Substring(text, Len(LearningPrefix)))

Sujeito(tipo, valor) == [tipo |-> tipo, valor |-> valor, id |-> Undefined, categoria |-> Undefined]
Predicado(tipo, valor) == [tipo |-> tipo, valor |-> valor]
Contexto(certeza) == [certeza |-> certeza, fonte |-> "declaração_direta", temporalidade |-> "atual"]

\* the first element of a sequence of alternatives that is not <<>>
RECURSIVE FirstMatch(_)
FirstMatch(alternatives) ==
  IF Len(alternatives) = 0 THEN <<>>
  ELSE IF Head(alternatives) # <<>> THEN Head(alternatives)
  ELSE FirstMatch(Tail(alternatives))

\* s without the prefix p when it has it (compared in lower case), else Undefined
Skip(s, p) ==
  IF s # Undefined /\ ToLowerCase(Slice(s, 1, Len(p))) = p
  THEN Substring(s, Len(p))
  ELSE Undefined

FirstDefined(seq) ==
  IF {i \in DOMAIN seq : seq[i] # Undefined} = {} THEN Undefined
  ELSE seq[FirstIndex({i \in DOMAIN seq : seq[i] # Undefined})]

\* /meu nome (?:é|e|seria) ([^.,]+)/i : the capture of the leftmost match, or
\* Undefined when there is none
NomeMatch(conteudo) ==
  FirstDefined(
    [i \in 1..Len(conteudo) |->
       FirstDefined(
         [k \in 1..3 |->
            Only({IF afterHead = Undefined \/ Len(SpanNotIn(afterHead, {".", ","})) = 0
                  THEN Undefined
                  ELSE SpanNotIn(afterHead, {".", ","}) :
                  afterHead \in
                    {Skip(Substring(conteudo, i - 1),
                          <<"meu nome é ", "meu nome e ", "meu nome seria ">>[k])}})])])

\* /([^ ]+) significa ([^.]+)/i : the two captures of the leftmost match, or <<>>
SignificaMatch(conteudo) ==
  LET lower == ToLowerCase(conteudo)
      sep == " significa "
      after(j) == Substring(conteudo, j - 1 + Len(sep))
  IN Only({IF first = NoIndex THEN <<>>
           ELSE <<Slice(conteudo,
                        CHOOSE i \in 1..(first - 1) :
                          /\ \A k \in i..(first - 1) : CharAt(conteudo, k) # " "
                          /\ (i = 1 \/ CharAt(conteudo, i - 1) = " "),
                        first - 1),
                  SpanNotIn(after(first), {"."})>> :
           first \in {FirstIndex({j \in 2..Len(lower) :
                                    /\ Slice(lower, j, j + Len(sep) - 1) = sep
                                    /\ CharAt(lower, j - 1) # " "
                                    /\ Len(SpanNotIn(after(j), {"."})) > 0})}})

\* /^[^:]+ é [^:]+$/i
IsSimpleStatement(conteudo) ==
  /\ ":" \notin CharsOf(conteudo)
  /\ \E j \in 2..(Len(conteudo) - 3) : ToLowerCase(Slice(conteudo, j, j + 2)) = " é "

\* the entry the fallback extractor builds from the text of a learning command; it
\* throws a TypeError when the text has " É " and no " é "
fallbackThrows(conteudoAprendizado) ==
  /\ ~Includes(ToLowerCase(conteudoAprendizado), "meu nome")
  /\ ~Includes(ToLowerCase(conteudoAprendizado), " significa ")
  /\ IsSimpleStatement(conteudoAprendizado)
  /\ Len(Split(conteudoAprendizado, " é ")) < 2

fallbackEntry(conteudoAprendizado, senderInfo) ==
  LET manual(tipo, sujeito, predicado) ==
        [id |-> "entrada_manual", tipo |-> tipo, sujeito |-> sujeito, predicado |-> predicado,
         objeto |-> NoObject, contexto |-> Contexto("ALTA")]
  IN IF Includes(ToLowerCase(conteudoAprendizado), "meu nome")
     THEN Only({manual("fato_identidade", Sujeito("USUÁRIO", senderInfo.id),
                       Predicado("nome", IF nomeMatch # Undefined THEN Trim(nomeMatch)
                                         ELSE conteudoAprendizado)) :
                nomeMatch \in {NomeMatch(conteudoAprendizado)}})
     ELSE IF Includes(ToLowerCase(conteudoAprendizado), " significa ")
     THEN Only({IF matches # <<>>
                THEN manual("fato_definicao", Sujeito("CONCEITO", Trim(matches[1])),
                            Predicado("significado", Trim(matches[2])))
                ELSE manual("fato_definicao", Sujeito("CONCEITO", Trim(partes[1])),
                            Predicado("significado",
                                      IF Len(partes) > 1 /\ partes[2] # "" THEN Trim(partes[2])
                                      ELSE "")) :
                matches \in {SignificaMatch(conteudoAprendizado)},
                partes \in {Split(conteudoAprendizado, " significa ")}})
     ELSE IF IsSimpleStatement(conteudoAprendizado)
     THEN Only({IF StartsWith(ToLowerCase(partes[1]), "meu ")
                THEN manual("fato_propriedade", Sujeito("USUÁRIO", senderInfo.id),
                            Predicado(ToLowerCase(Trim(Substring(partes[1], 4))),
                                      Trim(partes[2])))
                ELSE manual("fato_definicao", Sujeito("CONCEITO", Trim(partes[1])),
                            Predicado("definicao", Trim(partes[2]))) :
                partes \in {Split(conteudoAprendizado, " é ")}})
     ELSE manual("fato_definicao", Sujeito("CONCEITO", "termo"),
                 Predicado("definicao", conteudoAprendizado))

\* the validation without the test of classificacao
RequiredFieldsWithoutClassification(jsonData) ==
  /\ jsonData.palavras_chave # NoArray
  /\ Truthy(jsonData.resposta)
  /\ jsonData.analise_taxonomica # NoObject

\* the check of the required top-level fields: an empty array is truthy, an empty
\* string is not
RequiredFieldsPresent(jsonData) ==
  /\ jsonData.palavras_chave # NoArray
  /\ Truthy(jsonData.resposta)
  /\ Truthy(jsonData.classificacao)
  /\ jsonData.analise_taxonomica # NoObject

NeedsFallback(jsonData) ==
  \/ jsonData.conhecimento = NoObject
  \/ jsonData.conhecimento.entradas = NoEntradas
  \/ Len(jsonData.conhecimento.entradas) = 0

\* entrada.contexto.certeza = 'ALTA', on a contexto created empty when missing
ForceAlta(entrada) ==
  IF entrada.contexto = NoObject
  THEN [entrada EXCEPT !.contexto = [certeza |-> "ALTA", fonte |-> Undefined,
                                     temporalidade |-> Undefined]]
  ELSE [entrada EXCEPT !.contexto.certeza = "ALTA"]

\* what the adapter does to a well-formed answer of a learning command
ForceLearning(jsonData, userMessage, senderInfo) ==
  IF NeedsFallback(jsonData)
  THEN [jsonData EXCEPT !.conhecimento =
          [armazenar |-> TRUE,
           entradas |-> <<fallbackEntry(StripLearningPrefix(userMessage), senderInfo)>>]]
  ELSE [jsonData EXCEPT !.conhecimento =
          [armazenar |-> TRUE,
           entradas |-> [i \in DOMAIN jsonData.conhecimento.entradas |->
                           ForceAlta(jsonData.conhecimento.entradas[i])]]]

NoData == [undefined |-> TRUE]

\* outcome is what the service does: it fails, answers text that is no JSON, or
\* answers the JSON document outcome.json
getOpenAIResponse(userMessage, senderInfo, outcome) ==
  LET isLearningCommand == IsLearningCommand(userMessage)
  IN IF outcome.kind # "json" THEN [success |-> FALSE, data |-> NoData]
     ELSE IF ~RequiredFieldsPresent(outcome.json) THEN [success |-> FALSE, data |-> NoData]
     ELSE IF ~isLearningCommand THEN [success |-> TRUE, data |-> outcome.json]
     ELSE IF NeedsFallback(outcome.json) /\ fallbackThrows(StripLearningPrefix(userMessage))
     THEN [success |-> FALSE, data |-> NoData]
     ELSE [success |-> TRUE, data |-> ForceLearning(outcome.json, userMessage, senderInfo)]

(***************************************************************************)
(* Query analyzer                                                          *)
(***************************************************************************)
AlphaNumeric == Letters \cup Digits
AlphaNumericSpace == AlphaNumeric \cup {" "}

\* /(?:h1|h2|...) ([class]+)/i : the capture of the leftmost match, Undefined when
\* there is none; heads are in lower case and end with the separating space
HeadCapture(text, heads, class) ==
  LET lower == ToLowerCase(text)
      rest(i, h) == Substring(text, i - 1 + Len(h))
      ok(i, h) == Slice(lower, i, i + Len(h) - 1) = h /\ Len(SpanIn(rest(i, h), class)) > 0
      hits == {i \in 1..Len(lower) : \E k \in DOMAIN heads : ok(i, heads[k])}
      first == FirstIndex(hits)
      k == FirstIndex({j \in DOMAIN heads : ok(first, heads[j])})
  IN IF hits = {} THEN Undefined ELSE SpanIn(rest(first, heads[k]), class)

\* [class]+ at the start of what follows the prefix p of s: the match, "" when
\* there is none
SpanAfter(s, p, class) ==
  IF Skip(s, p) = Undefined THEN "" ELSE SpanIn(Skip(s, p), class)

\* (?:da |do |de |)([a-zA-Z0-9 ]+) after the first capture g1 and the space: the
\* two captures for the first alternative that lets the second capture match
PropertyAfterWord(g1, afterSpace) ==
  FirstMatch([k \in 1..4 |->
                IF Len(SpanAfter(afterSpace, <<"da ", "do ", "de ", "">>[k],
                                 AlphaNumericSpace)) = 0
                THEN <<>>
                ELSE <<g1, SpanAfter(afterSpace, <<"da ", "do ", "de ", "">>[k],
                                     AlphaNumericSpace)>>])

\* ([a-zA-Z]+)(?:s)? (?:da |do |de |)([a-zA-Z0-9 ]+) matched at the start of r: the
\* two captures, or <<>>
PropertyTail(r) ==
  IF r = Undefined \/ Len(SpanIn(r, Letters)) = 0 THEN <<>>
  ELSE PropertyAfterWord(SpanIn(r, Letters),
                         Skip(Substring(r, Len(SpanIn(r, Letters))), " "))

\* (?:as? |os? )? : s without the article, Undefined when it has none
Article(s) ==
  FirstDefined(<<Skip(s, "a "), Skip(s, "as "), Skip(s, "o "), Skip(s, "os ")>>)

\* (?:s[ãa]o )? : s without the verb, Undefined when it has none
Copula(s) == FirstDefined(<<Skip(s, "são "), Skip(s, "sao ")>>)

\* what may follow the optional verb and article, in the order the optional
\* groups are tried: both taken, the verb only, the article only, neither
PropertyRests(afterHead) ==
  <<Article(Copula(afterHead)), Copula(afterHead), Article(afterHead), afterHead>>

\* /(?:quais|que|quem) (?:s[ãa]o )?(?:as? |os? )?([a-zA-Z]+)(?:s)? (?:da |do |de |)([a-zA-Z0-9 ]+)\??/i
\* matched at position i of text: the two captures, or <<>>
PropertyMatchAt(text, i) ==
  FirstMatch([k \in 1..4 |->
                PropertyTail(PropertyRests(
                  FirstDefined(<<Skip(Substring(text, i - 1), "quais "),
                                 Skip(Substring(text, i - 1), "que "),
                                 Skip(Substring(text, i - 1), "quem ")>>))[k])])

\* the leftmost match
PropertyMatch(text) == FirstMatch([i \in 1..Len(text) |-> PropertyMatchAt(text, i)])

\* \s+ at the start of s: what follows it, Undefined when there is none
SkipSpaces(s) ==
  IF s = Undefined \/ Len(SpanIn(s, WhiteSpace)) = 0 THEN Undefined
  ELSE Substring(s, Len(SpanIn(s, WhiteSpace)))

\* ([a-zA-Z]+) at the start of s: the capture, Undefined when there is none
Word(s) ==
  IF s = Undefined \/ Len(SpanIn(s, Letters)) = 0 THEN Undefined ELSE SpanIn(s, Letters)

\* \s+(?:quais|que)?\s+([a-zA-Z]+) after the verb: the capture, or Undefined.  Without
\* the optional word the two \s+ need two white-space characters between them.
SimpleAfterVerb(afterVerb) ==
  FirstDefined(<<Word(SkipSpaces(Skip(SkipSpaces(afterVerb), "quais"))),
                 Word(SkipSpaces(Skip(SkipSpaces(afterVerb), "que"))),
                 IF afterVerb # Undefined /\ Len(SpanIn(afterVerb, WhiteSpace)) >= 2
                 THEN Word(SkipSpaces(afterVerb))
                 ELSE Undefined>>)

\* (?:\s+tem\s+|\s+possui\s+)(?:quais|que)?\s+([a-zA-Z]+) matched at the start of r:
\* the capture, or Undefined
SimpleTail(r) ==
  SimpleAfterVerb(FirstDefined(<<Skip(SkipSpaces(r), "tem"), Skip(SkipSpaces(r), "possui")>>))

\* the two captures of the leftmost match with the longest first capture, or <<>>;
\* tails[e] is the second capture when the first one ends at position e
SimpleCaptures(text, tails) ==
  LET ok(i, e) == /\ \A k \in i..e : CharAt(text, k) \in AlphaNumericSpace
                  /\ tails[e] # Undefined
      starts == {i \in 1..Len(text) : \E e \in i..Len(text) : ok(i, e)}
      first == FirstIndex(starts)
      last == CHOOSE e \in first..Len(text) :
                ok(first, e) /\ \A e2 \in first..Len(text) : ok(first, e2) => e2 <= e
  IN IF starts = {} THEN <<>> ELSE <<Slice(text, first, last), tails[last]>>

\* /([a-zA-Z0-9 ]+)(?:\s+tem\s+|\s+possui\s+)(?:quais|que)?\s+([a-zA-Z]+)/i
SimpleMatch(text) ==
  SimpleCaptures(text, [e \in 1..Len(text) |-> SimpleTail(Substring(text, e))])

NoParametros == [entidade |-> Undefined, valor |-> Undefined, propriedade |-> Undefined]

tipoDaCategoria(categoria) ==
  CASE categoria = "IDENTIDADE" -> "identidade"
    [] categoria = "RELAÇÃO" -> "relacao"
    [] categoria = "DEFINIÇÃO" -> "definicao"
    [] categoria = "PROPRIEDADE" -> "propriedade"
    [] OTHER -> Undefined

\* the parameters extracted for the target, by subject and query kind
parametrosDaConsulta(sujeito, tipo, mensagemOriginal) ==
  LET captured(match) == IF match # Undefined
                         THEN [NoParametros EXCEPT !.valor = ToLowerCase(match)]
                         ELSE NoParametros
      propriedade(conceitoPropriedadeMatch, conceitoSimples) ==
        IF conceitoPropriedadeMatch # <<>>
        THEN [NoParametros EXCEPT
                !.propriedade = ToLowerCase(conceitoPropriedadeMatch[1]),
                !.valor = ToLowerCase(Trim(conceitoPropriedadeMatch[2]))]
        ELSE IF conceitoSimples # <<>>
        THEN [NoParametros EXCEPT
                !.valor = ToLowerCase(Trim(conceitoSimples[1])),
                !.propriedade = ToLowerCase(conceitoSimples[2])]
        ELSE NoParametros
  IN CASE sujeito = "USUÁRIO" -> [NoParametros EXCEPT !.entidade = "usuario"]
       [] sujeito = "TERCEIRO" ->
            captured(HeadCapture(mensagemOriginal, <<"quem é ", "sobre ">>, Letters))
       [] sujeito = "CONCEITO" /\ tipo = "definicao" ->
            captured(HeadCapture(mensagemOriginal,
                                 <<"o que é ", "significa ", "significado de ">>,
                                 AlphaNumeric))
       [] sujeito = "CONCEITO" /\ tipo = "propriedade" ->
            propriedade(PropertyMatch(mensagemOriginal), SimpleMatch(mensagemOriginal))
       [] OTHER -> NoParametros

alvoDoSujeito(sujeito) ==
  CASE sujeito = "USUÁRIO" -> "usuario"
    [] sujeito = "TERCEIRO" -> "terceiro"
    [] sujeito = "CONCEITO" -> "conceito"
    [] OTHER -> Undefined

NoConsulta == [undefined |-> TRUE]

\* the analysis without its last test: a query about a third party or a concept is
\* returned without the value it asks about
analisarTaxonomiaWithoutValue(taxonomia, mensagemOriginal) ==
  IF taxonomia = NoObject THEN NoConsulta
  ELSE IF taxonomia.tipo_interacao # "pergunta" THEN NoConsulta
  ELSE IF tipoDaCategoria(taxonomia.categoria_conhecimento) = Undefined THEN NoConsulta
  ELSE IF alvoDoSujeito(taxonomia.sujeito_principal) = Undefined THEN NoConsulta
  ELSE [tipo |-> tipoDaCategoria(taxonomia.categoria_conhecimento),
        alvo |-> alvoDoSujeito(taxonomia.sujeito_principal),
        parametros |-> parametrosDaConsulta(
                         taxonomia.sujeito_principal,
                         tipoDaCategoria(taxonomia.categoria_conhecimento),
                         mensagemOriginal)]

analisarTaxonomia(taxonomia, mensagemOriginal) ==
  LET checked(consulta) ==
        IF consulta.alvo \in {"terceiro", "conceito"} /\ Falsy(consulta.parametros.valor)
        THEN NoConsulta
        ELSE consulta
  IN IF taxonomia = NoObject THEN NoConsulta
     ELSE IF taxonomia.tipo_interacao # "pergunta" THEN NoConsulta
     ELSE IF tipoDaCategoria(taxonomia.categoria_conhecimento) = Undefined THEN NoConsulta
     ELSE IF alvoDoSujeito(taxonomia.sujeito_principal) = Undefined THEN NoConsulta
     ELSE checked([tipo |-> tipoDaCategoria(taxonomia.categoria_conhecimento),
                   alvo |-> alvoDoSujeito(taxonomia.sujeito_principal),
                   parametros |-> parametrosDaConsulta(
                                    taxonomia.sujeito_principal,
                                    tipoDaCategoria(taxonomia.categoria_conhecimento),
                                    mensagemOriginal)])

(***************************************************************************)
(* Answer synthesizer                                                      *)
(***************************************************************************)
Capitalize(s) == ToUpperCase(Slice(s, 1, 1)) \o Substring(s, 1)

ValuesOf(fatos) == [i \in DOMAIN fatos |-> fatos[i].valor]
KeysOf(fatos) == [i \in DOMAIN fatos |-> fatos[i].chave]
PairsOf(fatos) == [i \in DOMAIN fatos |-> fatos[i].chave \o ": " \o fatos[i].valor]

\* the answer for the result of findFact
respostaFatoUnico(consulta, fato) ==
  CASE consulta.tipo = "identidade" ->
         IF fato.tipo = "nome" THEN "Seu nome é " \o fato.valor \o "." ELSE Undefined
    [] consulta.tipo = "definicao" ->
         ToUpperCase(fato.chave) \o " significa " \o fato.valor \o "."
    [] OTHER -> fato.chave \o ": " \o fato.valor

\* the answer for the result of a method that finds several facts
respostaFatos(consulta, fatos) ==
  CASE consulta.tipo = "relacao" /\ consulta.alvo = "terceiro" ->
         LET alvo == ToLowerCase(consulta.parametros.valor)
             fatosEspecificos == SelectSeq(fatos, LAMBDA f : ToLowerCase(f.valor) = alvo)
             fatosRelacionados == SelectSeq(fatos, LAMBDA f : Includes(ToLowerCase(f.valor), alvo))
         IN IF Len(fatosEspecificos) > 0
            THEN consulta.parametros.valor \o " é seu "
                 \o JoinWith(KeysOf(fatosEspecificos), ", ") \o "."
            ELSE IF Len(fatosRelacionados) > 0
            THEN "Encontrei: " \o JoinWith(ValuesOf(fatosRelacionados), ", ")
            ELSE Undefined
    [] consulta.tipo = "relacao" /\ consulta.alvo # "terceiro" ->
         LET valores == JoinWith(ValuesOf(fatos), ", ")
         IN IF fatos[1].chave = "amigo"
            THEN (IF Len(fatos) = 1 THEN "Seu amigo é " \o valores \o "."
                  ELSE "Seus amigos são: " \o valores \o ".")
            ELSE fatos[1].chave \o ": " \o valores
    [] consulta.tipo = "propriedade" /\ consulta.alvo = "conceito" ->
         LET nomeConceito == Capitalize(consulta.parametros.valor)
             propriedadesFiltradas ==
               IF Truthy(consulta.parametros.propriedade)
               THEN SelectSeq(fatos, LAMBDA f : Includes(ToLowerCase(f.chave),
                                                         consulta.parametros.propriedade))
               ELSE <<>>
         IN IF Len(propriedadesFiltradas) > 0
            THEN "As " \o consulta.parametros.propriedade \o " de " \o nomeConceito \o " são: "
                 \o JoinWith(ValuesOf(propriedadesFiltradas), ", ")
            ELSE "Informações sobre " \o nomeConceito \o ":\n- "
                 \o JoinWith(PairsOf(fatos), "\n- ")
    [] consulta.tipo = "propriedade" /\ consulta.alvo # "conceito" -> Undefined
    [] OTHER -> "Encontrei estas informações: " \o JoinWith(ValuesOf(fatos), ", ")

construirRespostaConsulta(consulta, resultados) ==
  IF Len(resultados.facts) = 0 THEN Undefined
  ELSE IF resultados.single THEN respostaFatoUnico(consulta, resultados.facts[1])
  ELSE respostaFatos(consulta, resultados.facts)

(***************************************************************************)
(* Message orchestrator                                                    *)
(***************************************************************************)
BOT_NAME == "Marvin"

ApologyAdapterFailed ==
  "Desculpe, não consegui processar sua pergunta. Por favor, tente novamente mais tarde."
ApologyException ==
  "Estou com problemas para obter uma resposta no momento. Por favor, tente novamente mais tarde."
ApologySaveFailed == "Houve um erro ao armazenar o conhecimento. Por favor, tente novamente."

\* message.message.conversation.trim(), null for a message without text
extractMessageText(message) ==
  IF Falsy(message.conversation) THEN Undefined ELSE Trim(message.conversation)

\* the sender's id is the part of the jid before the '@'
extractSenderInfo(message) ==
  [id |-> Split(message.remoteJid, "@")[1],
   name |-> message.pushName,
   isGroup |-> Includes(message.remoteJid, "@g.us")]

\* the cache test with its negation lost
UseCachedResponseForLearning(existingResponse, isLearningCommand) ==
  existingResponse.success /\ isLearningCommand

\* existingResponse.success && !isLearningCommand
UseCachedResponse(existingResponse, isLearningCommand) ==
  existingResponse.success /\ ~isLearningCommand

\* the store lookup processMessage dispatches for a query, "none" when it runs none
lookupOf(consulta) ==
  CASE consulta.tipo = "identidade" /\ consulta.alvo = "usuario" -> "findFact_nome"
    [] consulta.tipo = "relacao" /\ consulta.alvo = "usuario" -> "findRelationalFacts"
    [] consulta.tipo = "relacao" /\ consulta.alvo = "terceiro"
         /\ Truthy(consulta.parametros.valor) -> "findRelationalFacts_valor"
    [] consulta.tipo = "definicao" /\ consulta.alvo = "conceito"
         /\ Truthy(consulta.parametros.valor) -> "findFact_definicao"
    [] consulta.tipo = "propriedade" /\ consulta.alvo = "conceito"
         /\ Truthy(consulta.parametros.valor) -> "findConceptProperties"
    [] OTHER -> "none"

NoResultado == [success |-> FALSE, single |-> FALSE, facts |-> <<>>]

resultadoDaConsulta(coll, consulta, senderInfo, storeFails) ==
  CASE lookupOf(consulta) = "findFact_nome" ->
         findFact(coll, "nome", "nome", senderInfo.id, storeFails)
    [] lookupOf(consulta) = "findRelationalFacts" ->
         findRelationalFacts(coll, "relacao", senderInfo.id, Undefined, storeFails)
    [] lookupOf(consulta) = "findRelationalFacts_valor" ->
         findRelationalFacts(coll, "relacao", senderInfo.id, consulta.parametros.valor,
                             storeFails)
    [] lookupOf(consulta) = "findFact_definicao" ->
         findFact(coll, "definicao", consulta.parametros.valor, "geral", storeFails)
    [] lookupOf(consulta) = "findConceptProperties" ->
         findConceptProperties(coll, consulta.parametros.valor, storeFails)
    [] OTHER -> NoResultado

\* the loop left at the first save that fails
RECURSIVE saveFatosUntilFailure(_, _, _, _)
saveFatosUntilFailure(coll, fatos, now, factFails) ==
  IF Len(fatos) = 0 THEN [coll |-> coll, results |-> <<>>]
  ELSE LET saveResult == saveFact(coll, Head(fatos), now, 1 \in factFails)
           rest == saveFatosUntilFailure(saveResult.coll, Tail(fatos), now,
                                         {k - 1 : k \in factFails \ {1}})
       IN IF ~saveResult.success
          THEN [coll |-> coll, results |-> <<[success |-> FALSE, updated |-> FALSE]>>]
          ELSE [coll |-> rest.coll,
                results |-> <<[success |-> TRUE, updated |-> saveResult.updated]>>
                            \o rest.results]

\* the loop over the translated facts: fact k is saved, its failure is caught by
\* saveFact itself, and the loop goes on with the next fact
RECURSIVE saveFatos(_, _, _, _)
saveFatos(coll, fatos, now, factFails) ==
  IF Len(fatos) = 0 THEN [coll |-> coll, results |-> <<>>]
  ELSE Only({
         Only({[coll |-> saveResult.coll,
                results |-> Append(front.results, [success |-> saveResult.success,
                                                   updated |-> saveResult.updated])] :
               saveResult \in {saveFact(front.coll, fatos[Len(fatos)], now,
                                        Len(fatos) \in factFails)}}) :
         front \in {saveFatos(coll, Slice(fatos, 1, Len(fatos) - 1), now, factFails)}})

\* the number the confirmation reports
ReportedCount(fatos, results) == Len(fatos)

LearningConfirmation(n) ==
  "Aprendizado concluído com sucesso. " \o NatToString(n) \o " fatos foram armazenados."

\* the writes made for every message
ShouldPersistAlways(isLearningCommand) == TRUE

\* whether processMessage writes the classification and the facts
ShouldPersist(isLearningCommand) == isLearningCommand

\* the text handed to the adapter
TextForClassifier(messageText, processText) == processText

\* the reply is sent once: a failed send is not tried again
sendReplyNoRetry(formattedResponse, env) ==
  <<[text |-> formattedResponse, quoted |-> TRUE, ok |-> ~env.sendQuotedFails]>>

\* sock.sendMessage with the quoted message, then once more without it
sendReply(formattedResponse, env) ==
  IF ~env.sendQuotedFails
  THEN <<[text |-> formattedResponse, quoted |-> TRUE, ok |-> TRUE]>>
  ELSE <<[text |-> formattedResponse, quoted |-> TRUE, ok |-> FALSE],
         [text |-> formattedResponse, quoted |-> FALSE, ok |-> ~env.sendPlainFails]>>

NoRun ==
  [handled |-> FALSE, text |-> Undefined, sender |-> Undefined, isLearningCommand |-> FALSE,
   keywords |-> <<>>, cacheHit |-> FALSE, usedCache |-> FALSE,
   classifierCalls |-> 0, classifierText |-> Undefined, classifierReply |-> NoData,
   adapterLearning |-> FALSE,
   adapterSuccess |-> FALSE, conhecimento |-> NoObject,
   analyzerRuns |-> 0, consultaFound |-> FALSE, factLookups |-> 0, consultaProcessada |-> FALSE,
   translatorRuns |-> 0, fatos |-> <<>>, responseSaves |-> 0, responseSaved |-> FALSE,
   saveResults |-> <<>>, finalResponse |-> Undefined, sends |-> <<>>]

\* the text the pipeline works on: a learning command without its prefix
processTextOf(messageText) ==
  IF IsLearningCommand(messageText) THEN StripLearningPrefix(messageText) ELSE messageText

\* the response is formatted and sent; the collections and the record of the run
respond(factsColl, responsesColl, trace, env) ==
  [facts |-> factsColl, responses |-> responsesColl,
   run |-> [trace EXCEPT
              !.sends = sendReply("*" \o BOT_NAME \o "*\n\n" \o trace.finalResponse, env)]]

\* the translation of the knowledge block and, for a learning command, the writes
translateAndStore(factsColl, responsesColl, env, now, senderInfo, data, trace) ==
  IF traduzirThrows(data.conhecimento)
  THEN respond(factsColl, responsesColl,
               [trace EXCEPT !.translatorRuns = 1, !.finalResponse = ApologyException], env)
  ELSE Only({
         IF ~ShouldPersist(trace.isLearningCommand)
         THEN respond(factsColl, responsesColl,
                      [trace EXCEPT !.translatorRuns = 1, !.fatos = fatos,
                                    !.finalResponse = data.resposta], env)
         ELSE Only({
                IF saved.threw
                THEN respond(factsColl, saved.coll,
                             [trace EXCEPT !.translatorRuns = 1, !.fatos = fatos,
                                           !.responseSaves = 1,
                                           !.finalResponse = ApologySaveFailed], env)
                ELSE respond(stored.coll, saved.coll,
                             [trace EXCEPT !.translatorRuns = 1, !.fatos = fatos,
                                           !.responseSaves = 1,
                                           !.responseSaved = saved.success,
                                           !.saveResults = stored.results,
                                           !.finalResponse =
                                             LearningConfirmation(
                                               ReportedCount(fatos, stored.results))], env) :
                saved \in {saveResponse(responsesColl,
                                        [palavras_chave |-> data.palavras_chave,
                                         resposta |-> data.resposta,
                                         classificacao |-> data.classificacao],
                                        now, env.responseLookupFails,
                                        env.responseWriteFails)},
                stored \in {saveFatos(factsColl, fatos, now, env.factFails)}}) :
         fatos \in {traduzirParaModeloDados(data.conhecimento, senderInfo.id, now)}})

\* the answer of the query is built and then not used: the message goes on to the
\* translation as if no answer had been found
answerQueryKeepsLearning(factsColl, responsesColl, env, now, senderInfo, data, trace, analiseConsulta) ==
  translateAndStore(factsColl, responsesColl, env, now, senderInfo, data,
                    [trace EXCEPT !.conhecimento = data.conhecimento,
                                  !.analyzerRuns = IF trace.isLearningCommand THEN 0 ELSE 1,
                                  !.consultaFound = analiseConsulta # NoConsulta,
                                  !.consultaProcessada =
                                    analiseConsulta # NoConsulta /\ ~trace.isLearningCommand])

\* the lookup the query asks for and the answer built from what it finds; without
\* such an answer, and for every learning command, the message goes on to translation
answerQuery(factsColl, responsesColl, env, now, senderInfo, data, trace, analiseConsulta) ==
  LET lookup == IF analiseConsulta = NoConsulta THEN "none" ELSE lookupOf(analiseConsulta)
      analysed == [trace EXCEPT
                     !.conhecimento = data.conhecimento,
                     !.analyzerRuns = IF trace.isLearningCommand THEN 0 ELSE 1,
                     !.consultaFound = analiseConsulta # NoConsulta,
                     !.factLookups = IF lookup = "none" THEN 0 ELSE 1]
  IN Only({
       IF Truthy(respostaConsulta) /\ ~trace.isLearningCommand
       THEN respond(factsColl, responsesColl,
                    [analysed EXCEPT !.consultaProcessada = TRUE,
                                     !.finalResponse = respostaConsulta], env)
       ELSE translateAndStore(factsColl, responsesColl, env, now, senderInfo, data,
                              [analysed EXCEPT
                                 !.consultaProcessada = Truthy(respostaConsulta)]) :
       respostaConsulta \in
         {Only({IF resultadoConsulta.success
                THEN construirRespostaConsulta(analiseConsulta, resultadoConsulta)
                ELSE Undefined :
                resultadoConsulta \in
                  {IF lookup = "none" THEN NoResultado
                   ELSE resultadoDaConsulta(factsColl, analiseConsulta, senderInfo,
                                            env.queryFails)}})}})

\* the failure of the adapter is logged and the message is left without a reply
afterClassifierSilentOnFailure(factsColl, responsesColl, env, now, processText, senderInfo, trace, openAIResult) ==
  IF ~openAIResult.success
  THEN [facts |-> factsColl, responses |-> responsesColl, run |-> trace]
  ELSE answerQuery(factsColl, responsesColl, env, now, senderInfo, openAIResult.data,
                   [trace EXCEPT !.adapterSuccess = TRUE],
                   IF trace.isLearningCommand THEN NoConsulta
                   ELSE analisarTaxonomia(openAIResult.data.analise_taxonomica, processText))

\* what follows the call of the adapter: the apology when it failed, else the
\* analysis of the taxonomy, which a learning command skips
afterClassifier(factsColl, responsesColl, env, now, processText, senderInfo, trace, openAIResult) ==
  IF ~openAIResult.success
  THEN respond(factsColl, responsesColl,
               [trace EXCEPT !.finalResponse = ApologyAdapterFailed], env)
  ELSE answerQuery(factsColl, responsesColl, env, now, senderInfo, openAIResult.data,
                   [trace EXCEPT !.adapterSuccess = TRUE],
                   IF trace.isLearningCommand THEN NoConsulta
                   ELSE analisarTaxonomia(openAIResult.data.analise_taxonomica, processText))

\* a message with text: the cache lookup, then the cached response or the adapter
answerText(factsColl, responsesColl, env, now, messageText, senderInfo) ==
  Only({
    Only({
      LET start == [NoRun EXCEPT !.handled = TRUE, !.text = messageText,
                                 !.sender = senderInfo.id,
                                 !.isLearningCommand = IsLearningCommand(messageText),
                                 !.keywords = extractedKeywords,
                                 !.cacheHit = existingResponse.success]
          classifierText == TextForClassifier(messageText, processTextOf(messageText))
      IN IF UseCachedResponse(existingResponse, IsLearningCommand(messageText))
         THEN respond(factsColl, responsesColl,
                      [start EXCEPT
                         !.usedCache = TRUE,
                         !.finalResponse = responsesColl[existingResponse.index].resposta],
                      env)
         ELSE afterClassifier(factsColl, responsesColl, env, now,
                              processTextOf(messageText), senderInfo,
                              [start EXCEPT
                                 !.classifierCalls = 1,
                                 !.classifierText = classifierText,
                                 !.classifierReply = env.outcome,
                                 !.adapterLearning = IsLearningCommand(classifierText)],
                              getOpenAIResponse(classifierText, senderInfo, env.outcome)) :
      existingResponse \in
        {findResponseByKeywords(responsesColl, extractedKeywords, env.cacheFails)}}) :
    extractedKeywords \in {extractKeywords(processTextOf(messageText), DefaultMaxKeywords)}})

\* The whole of processMessage for one message: the collections it leaves and the
\* record of what it did.
processMessage(factsColl, responsesColl, message, env, now) ==
  IF Falsy(extractMessageText(message))
  THEN [facts |-> factsColl, responses |-> responsesColl, run |-> NoRun]
  ELSE answerText(factsColl, responsesColl, env, now, extractMessageText(message),
                  extractSenderInfo(message))

(***************************************************************************)
(* The inputs: messages, answers of the language model, failing calls      *)
(***************************************************************************)
MaxMessages == 2

Senders == {"5511@s.whatsapp.net"}

Texts ==
  {"/aprender meu nome é Ana",
   "qual é meu nome",
   "/aprender /aprender API significa rede",
   "o que é API",
   "   "}

Messages == {[conversation |-> t, remoteJid |-> j, pushName |-> Undefined] :
               t \in Texts, j \in Senders}

Entrada(tipo, sujeito, predicado, objeto, certeza) ==
  [id |-> "entrada_1", tipo |-> tipo, sujeito |-> sujeito, predicado |-> predicado,
   objeto |-> objeto, contexto |-> IF certeza = Undefined THEN NoObject ELSE Contexto(certeza)]

NomeAna == Entrada("fato_identidade", Sujeito("USUÁRIO", "usuario"), Predicado("nome", "Ana"),
                   NoObject, "ALTA")
NomeAnaMedia == Entrada("fato_identidade", Sujeito("USUÁRIO", "usuario"),
                        Predicado("nome", "Ana"), NoObject, "MÉDIA")
NomeBia == Entrada("fato_identidade", Sujeito("USUÁRIO", "usuario"), Predicado("nome", " Bia"),
                   NoObject, "ALTA")
DefinicaoApi == Entrada("fato_definicao", Sujeito("CONCEITO", "API"),
                        Predicado("significado", "interface."), NoObject, "ALTA")

\* a text of 501 characters
LongText ==
  LET ten == "abcdefghij"
      fifty == ten \o ten \o ten \o ten \o ten
      hundred == fifty \o fifty
  IN hundred \o hundred \o hundred \o hundred \o hundred \o "k"

DefinicaoLonga == Entrada("fato_definicao", Sujeito("CONCEITO", "API"),
                          Predicado("significado", LongText), NoObject, "ALTA")

Taxonomia(interacao, sujeito, categoria) ==
  [tipo_interacao |-> interacao, sujeito_principal |-> sujeito,
   categoria_conhecimento |-> categoria, contexto_aplicacao |-> "PESSOAL",
   nivel_certeza |-> "ALTA"]

Informa == Taxonomia("informativa", "USUÁRIO", "IDENTIDADE")
PerguntaNome == Taxonomia("pergunta", "USUÁRIO", "IDENTIDADE")
PerguntaDefinicao == Taxonomia("pergunta", "CONCEITO", "DEFINIÇÃO")

Resposta(palavras, taxonomia, conhecimento) ==
  [palavras_chave |-> palavras, resposta |-> "Armazenei esta informação",
   classificacao |-> "pessoal", analise_taxonomica |-> taxonomia,
   conhecimento |-> conhecimento]

Guardar(entradas) == [armazenar |-> TRUE, entradas |-> entradas]
NadaAGuardar == [armazenar |-> FALSE, entradas |-> <<>>]

Sample == Resposta(<<"nome", "ana">>, Informa, Guardar(<<NomeAna>>))
AskName == Resposta(<<"pergunta", "dados">>, PerguntaNome, NadaAGuardar)
LearnTwo == Resposta(<<"api", "ana">>, Informa, Guardar(<<NomeAna, DefinicaoApi>>))

WellFormed ==
  {Sample, AskName, LearnTwo,
   Resposta(<<"api", "interface">>, PerguntaDefinicao, NadaAGuardar),
   Resposta(<<"nome", "ana">>, Informa, Guardar(<<NomeAnaMedia>>)),
   Resposta(<<"nome", "bia">>, Informa, Guardar(<<NomeBia>>)),
   Resposta(<<"nome", "bia">>, Informa, Guardar(<<NomeBia, NomeAna>>)),
   Resposta(<<"api", "interface">>, Informa, Guardar(<<DefinicaoApi>>)),
   Resposta(<<"api", "interface">>, Informa, Guardar(<<DefinicaoLonga>>)),
   Resposta(<<"pessoa", "ana">>, PerguntaNome, Guardar(<<NomeAna>>)),
   Resposta(<<"pessoa", "ana">>, Informa, NoObject)}

Malformed ==
  {[Sample EXCEPT !.palavras_chave = NoArray],
   [Sample EXCEPT !.resposta = ""],
   [Sample EXCEPT !.resposta = Undefined],
   [Sample EXCEPT !.classificacao = Undefined],
   [Sample EXCEPT !.analise_taxonomica = NoObject]}

Outcomes ==
  {[kind |-> "service_error", json |-> NoData], [kind |-> "unparsable", json |-> NoData]}
  \cup {[kind |-> "json", json |-> j] : j \in WellFormed \cup Malformed}

NoFault == [cacheFails |-> FALSE, queryFails |-> FALSE, responseLookupFails |-> FALSE,
            responseWriteFails |-> FALSE, factFails |-> {}, sendQuotedFails |-> FALSE,
            sendPlainFails |-> FALSE]

Faults ==
  {NoFault,
   [NoFault EXCEPT !.cacheFails = TRUE],
   [NoFault EXCEPT !.queryFails = TRUE],
   [NoFault EXCEPT !.responseLookupFails = TRUE],
   [NoFault EXCEPT !.responseWriteFails = TRUE],
   [NoFault EXCEPT !.factFails = {1}],
   [NoFault EXCEPT !.factFails = {2}],
   [NoFault EXCEPT !.factFails = {1, 2}],
   [NoFault EXCEPT !.responseWriteFails = TRUE, !.factFails = {1}],
   [NoFault EXCEPT !.sendQuotedFails = TRUE],
   [NoFault EXCEPT !.sendQuotedFails = TRUE, !.sendPlainFails = TRUE]}

(***************************************************************************)
(* The state machine                                                       *)
(***************************************************************************)
VARIABLES facts, responses, entities, clock, last, call, handlers,
          reconnectAttempts, timers, starting, sockets

\* the connection to WhatsApp: the counter of reconnections, the timers set by
\* setTimeout, the calls of startWhatsAppConnection under way and the sockets made
connectionState == <<reconnectAttempts, timers, starting, sockets>>

vars == <<facts, responses, entities, clock, last, call, handlers, connectionState>>

\* let reconnectAttempts = 0, before startWhatsAppConnection is called: no call
\* of it is running, no timer is set and no socket exists
NotConnected ==
  /\ reconnectAttempts = 0
  /\ timers = 0
  /\ starting = 0
  /\ sockets = 0

\* no method of ResponseModel and no translation has been called on its own
NoCall == [op |-> "none"]

Init ==
  /\ facts = <<>>
  /\ responses = <<>>
  /\ entities = <<>>
  /\ clock = 0
  /\ last = NoRun
  /\ call = NoCall
  /\ handlers = <<>>
  /\ NotConnected

\* the calls of one run of processMessage that the surroundings decide
Env(outcome, fault) ==
  [outcome |-> outcome, cacheFails |-> fault.cacheFails, queryFails |-> fault.queryFails,
   responseLookupFails |-> fault.responseLookupFails,
   responseWriteFails |-> fault.responseWriteFails, factFails |-> fault.factFails,
   sendQuotedFails |-> fault.sendQuotedFails, sendPlainFails |-> fault.sendPlainFails]

\* every answer of the language model with a healthy store, and every failing
\* call with an answer that reaches it
Environments ==
  {Env(o, NoFault) : o \in Outcomes}
  \cup {Env([kind |-> "json", json |-> j], f) : j \in {AskName, LearnTwo}, f \in Faults}

\* one message handled by processMessage, from its receipt to the sending of the reply
ProcessMessage(message, env) ==
  /\ clock < MaxMessages
  /\ \E done \in {processMessage(facts, responses, message, env, clock + 1)} :
       /\ facts' = done.facts
       /\ responses' = done.responses
       /\ last' = done.run
  /\ clock' = clock + 1
  /\ UNCHANGED <<connectionState, entities, call, handlers>>

Next == \E message \in Messages, env \in Environments : ProcessMessage(message, env)

Spec == Init /\ [][Next]_vars

(***************************************************************************)
(* The handler of messages.upsert.  The emitter calls the handler for each *)
(* event and does not wait for the promise it returns: a handler runs from *)
(* one await to the next, and between two awaits of one handler the        *)
(* emitter can deliver another event, whose handler then runs its own      *)
(* loop.  handlers[h].await is the call handler h is waiting for and       *)
(* handlers[h].pending counts the messages of its event it has not         *)
(* finished.                                                               *)
(***************************************************************************)
MaxEvents == 2
MaxBatch == 2

\* the awaited calls processMessage can reach next from the one it waits for;
\* saveFact stands for the loop over the facts, paused is the last one
AwaitsAfter(await) ==
  CASE await = "presenceSubscribe" -> {"sendPresenceUpdate", "findResponseByKeywords"}
    [] await = "sendPresenceUpdate" -> {"findResponseByKeywords"}
    [] await = "findResponseByKeywords" -> {"getOpenAIResponse", "sendMessage"}
    [] await = "getOpenAIResponse" -> {"findFact", "saveResponse", "sendMessage"}
    [] await = "findFact" -> {"sendMessage"}
    [] await = "saveResponse" -> {"saveFact", "sendMessage"}
    [] await = "saveFact" -> {"sendMessage"}
    [] await = "sendMessage" -> {"sendMessageUnquoted", "paused"}
    [] await = "sendMessageUnquoted" -> {"paused"}
    [] OTHER -> {}

\* a reply sent as soon as the classifier has answered, the writes after it
NextAwaitsReplyFirst(await, learning, hit) ==
  CASE await = "findResponseByKeywords" ->
         IF hit /\ ~learning THEN {"sendMessage"} ELSE {"getOpenAIResponse"}
    [] await = "getOpenAIResponse" -> {"sendMessage"}
    [] await = "sendMessage" ->
         IF learning THEN {"saveResponse", "paused"} ELSE {"sendMessageUnquoted", "paused"}
    [] await = "saveResponse" -> {"saveFact", "paused"}
    [] await = "saveFact" -> {"saveFact", "paused"}
    [] OTHER -> AwaitsAfter(await)

\* the awaited calls a message can reach next, by what the message is and what
\* the lookup of a cached response returned: the classifier is called unless a
\* cached response answers a message that is no learning command, a learning
\* command is saved and every other message is looked up as a query
NextAwaits(await, learning, hit) ==
  CASE await = "findResponseByKeywords" ->
         IF hit /\ ~learning THEN {"sendMessage"} ELSE {"getOpenAIResponse"}
    [] await = "getOpenAIResponse" ->
         IF learning THEN {"saveResponse", "sendMessage"} ELSE {"findFact", "sendMessage"}
    [] await = "saveFact" -> {"saveFact", "sendMessage"}
    [] OTHER -> AwaitsAfter(await)

\* an event with n messages to process is emitted: its handler enters the loop
\* and runs processMessage for the first message up to its first await
Upsert(n) ==
  /\ Len(handlers) < MaxEvents
  /\ handlers' = Append(handlers, [pending |-> n, await |-> "presenceSubscribe"])
  /\ UNCHANGED <<connectionState, facts, responses, entities, clock, last, call>>

\* the call handler h waits for settles: processMessage goes on to its next await
\* or, after the last one, returns, and the loop takes the next message of the event
Settle(h) ==
  /\ handlers[h].await # "returned"
  /\ \/ \E await \in AwaitsAfter(handlers[h].await) :
          handlers' = [handlers EXCEPT ![h].await = await]
     \/ /\ handlers[h].await = "paused"
        /\ handlers' = [handlers EXCEPT
                          ![h] = IF handlers[h].pending > 1
                                 THEN [pending |-> handlers[h].pending - 1,
                                       await |-> "presenceSubscribe"]
                                 ELSE [pending |-> 0, await |-> "returned"]]
  /\ UNCHANGED <<connectionState, facts, responses, entities, clock, last, call>>

NextEvents ==
  \/ \E n \in 1..MaxBatch : Upsert(n)
  \/ \E h \in DOMAIN handlers : Settle(h)

SpecEvents == Init /\ [][NextEvents]_vars

(***************************************************************************)
(* ResponseModel.findResponseByKeywords and ResponseModel.saveResponse on  *)
(* their own: the collection responses starts empty, each step calls one   *)
(* of the two methods with keywords the classifier can return and call     *)
(* records the call and what it returned.                                  *)
(***************************************************************************)
MaxCacheCalls == 3

Cadastro == <<"nome", "usuario", "cadastro">>
Endereco == <<"nome", "usuario", "endereco">>
NomeEndereco == <<"nome", "endereco">>
NomeTwice == <<"nome", "nome", "idade">>
SixKeywords == <<"k1", "k2", "k3", "k4", "k5", "k6">>
ElevenKeywords == SixKeywords \o <<"k7", "k8", "k9", "k10", "nome">>

KeywordLists ==
  {<<>>, Cadastro, Endereco, NomeEndereco, NomeTwice, SixKeywords, ElevenKeywords}

ResponseData ==
  {[palavras_chave |-> k, resposta |-> r, classificacao |-> "pessoal"] :
     k \in KeywordLists, r \in {"primeira", "segunda"}}

FindResponseByKeywords(keywords, storeFails) ==
  /\ clock < MaxCacheCalls
  /\ call' = [op |-> "findResponseByKeywords", keywords |-> keywords,
              storeFails |-> storeFails,
              result |-> findResponseByKeywords(responses, keywords, storeFails)]
  /\ clock' = clock + 1
  /\ UNCHANGED <<connectionState, facts, responses, entities, last, handlers>>

SaveResponse(responseData, lookupFails, writeFails) ==
  /\ clock < MaxCacheCalls
  /\ \E saved \in {saveResponse(responses, responseData, clock + 1, lookupFails, writeFails)} :
       /\ responses' = saved.coll
       /\ call' = [op |-> "saveResponse", responseData |-> responseData,
                   lookupFails |-> lookupFails, writeFails |-> writeFails,
                   result |-> [success |-> saved.success, updated |-> saved.updated]]
  /\ clock' = clock + 1
  /\ UNCHANGED <<connectionState, facts, entities, last, handlers>>

NextCache ==
  \/ \E keywords \in KeywordLists, storeFails \in BOOLEAN :
       FindResponseByKeywords(keywords, storeFails)
  \/ \E responseData \in ResponseData, lookupFails \in BOOLEAN, writeFails \in BOOLEAN :
       SaveResponse(responseData, lookupFails, writeFails)

SpecCache == Init /\ [][NextCache]_vars

(***************************************************************************)
(* traduzirParaModeloDados on its own: the knowledge block is drawn from   *)
(* the batches of one or two entries the classifier can return, it is      *)
(* translated for the user UserId, and the facts are saved as the loop of  *)
(* processMessage saves them.                                              *)
(***************************************************************************)
UserId == "5511"

\* what the classifier can put in contexto.certeza; Undefined is an entry
\* without contexto
Certainties == {"ALTA", "MÉDIA", "BAIXA", Undefined}

Terceiro(valor) == [tipo |-> "TERCEIRO", valor |-> valor]

\* the entries apart from their certainty: an identity, a definition, the
\* relations of Ana to Bia, to Ana, to Ana written "Ana." and to the concept
\* Ana, relations whose predicate kind or subject holds the character "|", and
\* a relation whose object is a number
EntryShapes ==
  {[tipo |-> "fato_identidade", sujeito |-> Sujeito("USUÁRIO", "usuario"),
    predicado |-> Predicado("nome", "Ana"), objeto |-> NoObject],
   [tipo |-> "fato_definicao", sujeito |-> Sujeito("CONCEITO", "API"),
    predicado |-> Predicado("significado", "interface"), objeto |-> NoObject]}
  \cup {[tipo |-> "fato_relacao", sujeito |-> Sujeito("TERCEIRO", "Ana"),
         predicado |-> Predicado("amigo", "amigo"), objeto |-> o] :
          o \in {Terceiro("Bia"), Terceiro("Ana"), Terceiro("Ana."),
                 [tipo |-> "CONCEITO", valor |-> "Ana"]}}
  \cup {[tipo |-> "fato_relacao", sujeito |-> Sujeito("TERCEIRO", "Ana"),
         predicado |-> Predicado("pai|mae", "pai"), objeto |-> Terceiro("Bia")]}
  \cup {[tipo |-> "fato_relacao", sujeito |-> Sujeito("TERCEIRO", "mae|Ana"),
         predicado |-> Predicado("pai", "pai"), objeto |-> o] :
          o \in {Terceiro("Bia"), Terceiro("Dan")}}
  \cup {[tipo |-> "fato_relacao", sujeito |-> Sujeito("TERCEIRO", "Ana"),
         predicado |-> Predicado("idade", "idade"),
         objeto |-> [tipo |-> "CONCEITO", valor |-> NumberValue]]}

TranslatorEntries ==
  {Entrada(s.tipo, s.sujeito, s.predicado, s.objeto, c) : s \in EntryShapes, c \in Certainties}

\* values around the length the translator cuts at, the last one longer only by
\* the full stop and the space normalizarValor and trim remove
LongValues ==
  {Slice(LongText \o LongText, 1, n) :
     n \in {MaxValueLength - 1, MaxValueLength, MaxValueLength + 1, MaxValueLength + 100}}
  \cup {Slice(LongText, 1, MaxValueLength) \o ". "}

LongEntries ==
  {Entrada("fato_definicao", Sujeito("CONCEITO", "API"), Predicado("significado", v),
           NoObject, "ALTA") : v \in LongValues}

\* one or two entries of any certainty, three entries of certainty ALTA, or one
\* entry with a long value
Batches ==
  {<<e>> : e \in TranslatorEntries} \cup {<<e, f>> : e, f \in TranslatorEntries}
  \cup {<<e, f, g>> : e, f, g \in {Entrada(s.tipo, s.sujeito, s.predicado, s.objeto, "ALTA") :
                                     s \in EntryShapes}}
  \cup {<<e>> : e \in LongEntries}

InitTranslator ==
  /\ facts = <<>>
  /\ responses = <<>>
  /\ entities = <<>>
  /\ clock = 0
  /\ last = NoRun
  /\ handlers = <<>>
  /\ NotConnected
  /\ call \in {[op |-> "conhecimento",
                conhecimento |-> [armazenar |-> a, entradas |-> b]] :
                 a \in BOOLEAN, b \in Batches}

\* const fatos = traduzirParaModeloDados(data.conhecimento, senderInfo.id)
Translate ==
  /\ call.op = "conhecimento"
  /\ call' = IF traduzirThrows(call.conhecimento)
             THEN [op |-> "threw", conhecimento |-> call.conhecimento, fatos |-> <<>>]
             ELSE [op |-> "fatos", conhecimento |-> call.conhecimento,
                   fatos |-> traduzirParaModeloDados(call.conhecimento, UserId, clock + 1)]
  /\ clock' = clock + 1
  /\ UNCHANGED <<connectionState, facts, responses, entities, last, handlers>>

\* for (const fato of fatos) await responseModel.saveFact(fato)
SaveFatos ==
  /\ call.op = "fatos"
  /\ facts' = saveFatos(facts, call.fatos, clock, {}).coll
  /\ call' = [call EXCEPT !.op = "saved"]
  /\ UNCHANGED <<connectionState, responses, entities, clock, last, handlers>>

NextTranslator == Translate \/ SaveFatos

SpecTranslator == InitTranslator /\ [][NextTranslator]_vars

(***************************************************************************)
(* saveEntity and findEntityByName on their own: no code of the            *)
(* repository calls them, so the entity data are drawn from the names Ana, *)
(* ana and Bia with alias lists that overlap, repeat an alias or are       *)
(* missing.                                                                *)
(***************************************************************************)
MaxEntityCalls == 3

EntityData ==
  {[nome |-> "Ana", tipo |-> "TERCEIRO", alias |-> <<"aninha">>],
   [nome |-> "Ana", tipo |-> "TERCEIRO", alias |-> <<"nina", "aninha">>],
   [nome |-> "Ana", tipo |-> "CONCEITO", alias |-> NoArray],
   [nome |-> "ana", tipo |-> "TERCEIRO", alias |-> <<"nina", "nina">>],
   [nome |-> "Bia", tipo |-> "TERCEIRO", alias |-> <<>>]}

EntityNames == {"Ana", "ANA", "Aninha", "Dan"}

SaveEntity(entityData, lookupFails, writeFails) ==
  /\ clock < MaxEntityCalls
  /\ \E saved \in {saveEntity(entities, entityData, clock + 1, lookupFails, writeFails)} :
       /\ entities' = saved.coll
       /\ call' = [op |-> "saveEntity", entityData |-> entityData,
                   lookupFails |-> lookupFails, writeFails |-> writeFails,
                   result |-> [success |-> saved.success, updated |-> saved.updated]]
  /\ clock' = clock + 1
  /\ UNCHANGED <<connectionState, facts, responses, last, handlers>>

FindEntityByName(name, storeFails) ==
  /\ clock < MaxEntityCalls
  /\ call' = [op |-> "findEntityByName", name |-> name, storeFails |-> storeFails,
              result |-> findEntityByName(entities, name, storeFails)]
  /\ clock' = clock + 1
  /\ UNCHANGED <<connectionState, facts, responses, entities, last, handlers>>

NextEntities ==
  \/ \E entityData \in EntityData, lookupFails, writeFails \in BOOLEAN :
       SaveEntity(entityData, lookupFails, writeFails)
  \/ \E name \in EntityNames, storeFails \in BOOLEAN : FindEntityByName(name, storeFails)

SpecEntities == Init /\ [][NextEntities]_vars

(***************************************************************************)
(* processMessage on questions: the classifier answers a question with     *)
(* every analysis it can return, about a text that names a third party, a  *)
(* concept, a property of a concept, or none of them.  A learning command  *)
(* fills the store the lookups read.                                       *)
(***************************************************************************)
QuestionTexts == {"quem é Ana", "o que é API", "quais as cores do carro", "qual é meu nome"}

Interactions == {"pergunta", "informativa"}
Subjects == {"USUÁRIO", "TERCEIRO", "CONCEITO"}
Categories == {"IDENTIDADE", "RELAÇÃO", "DEFINIÇÃO", "PROPRIEDADE", "PROCEDIMENTO"}

Analyses == {Taxonomia(i, s, c) : i \in Interactions, s \in Subjects, c \in Categories}

QuestionRuns ==
  {[message |-> [conversation |-> t, remoteJid |-> j, pushName |-> Undefined],
    env |-> Env([kind |-> "json",
                 json |-> Resposta(<<"pergunta", "dados">>, a, NadaAGuardar)], NoFault)] :
     t \in QuestionTexts, j \in Senders, a \in Analyses}
  \cup {[message |-> [conversation |-> "/aprender meu nome é Ana", remoteJid |-> j,
                      pushName |-> Undefined],
         env |-> Env([kind |-> "json", json |-> LearnTwo], NoFault)] : j \in Senders}

NextQuestions == \E r \in QuestionRuns : ProcessMessage(r.message, r.env)

SpecQuestions == Init /\ [][NextQuestions]_vars

(***************************************************************************)
(* extractKeywords on its own: the text and the limit are drawn, and the   *)
(* function is applied to them.                                            *)
(***************************************************************************)
KeywordTexts ==
  {Undefined, "", "casa casa carro", "carro casa casa", "o a de", "para você uma casa",
   "Casa, casa! CARRO.", "casa  carro   casa", "ab abc abcd",
   "sol lua sol mar lua sol",
   "um dois tres quatro cinco seis sete oito nove dez onze doze treze",
   "casa 2024 100", "2024 casa 2024 casa", "nasci em 1990 e casei em 1985"}

KeywordLimits == {0, 1, 2, 3, DefaultMaxKeywords}

InitKeywords ==
  /\ facts = <<>>
  /\ responses = <<>>
  /\ entities = <<>>
  /\ clock = 0
  /\ last = NoRun
  /\ handlers = <<>>
  /\ NotConnected
  /\ call \in {[op |-> "text", text |-> t, maxKeywords |-> m] :
                 t \in KeywordTexts, m \in KeywordLimits}

ExtractKeywords ==
  /\ call.op = "text"
  /\ call' = [op |-> "extractKeywords", text |-> call.text, maxKeywords |-> call.maxKeywords,
              keywords |-> extractKeywords(call.text, call.maxKeywords)]
  /\ UNCHANGED <<connectionState, facts, responses, entities, clock, last, handlers>>

NextKeywords == ExtractKeywords

SpecKeywords == InitKeywords /\ [][NextKeywords]_vars

(***************************************************************************)
(* saveFact call by call.  saveFact awaits findOne and then updateOne or   *)
(* insertOne; the handlers of two events run at the same time, so between  *)
(* the two awaits of one call another call can read and write the          *)
(* collection.  handlers[h] is a call of saveFact: the fact it was given,  *)
(* the call it awaits, and the record findOne returned.                    *)
(***************************************************************************)
MaxFactCalls == 2

Amigo(valor) == Entrada("fato_relacao", Sujeito("USUÁRIO", "usuario"),
                        Predicado("amigo", "amigo"), Terceiro(valor), "ALTA")

\* the facts given to saveFact: what the translator makes of one entry
FactData ==
  {traduzirParaModeloDados(Guardar(<<e>>), UserId, 1)[1] :
     e \in {NomeAna, NomeBia, Amigo("Bia"), Amigo("Dan")}}

\* saveFact is called and runs to its first await
SaveFactCalled(factData) ==
  /\ Len(handlers) < MaxFactCalls
  /\ handlers' = Append(handlers,
                        [await |-> "findOne", existingFact |-> NoIndex, now |-> 0,
                         normalizedFact |->
                           [factData EXCEPT !.tipo = Trim(ToLowerCase(factData.tipo)),
                                            !.chave = Trim(ToLowerCase(factData.chave)),
                                            !.entidade = Trim(ToLowerCase(factData.entidade))],
                         result |-> [success |-> FALSE, updated |-> FALSE]])
  /\ UNCHANGED <<connectionState, facts, responses, entities, clock, last, call>>

\* const existingFact = await this.factsCollection.findOne(query); now = new Date()
FindOneSettles(h, storeFails) ==
  /\ handlers[h].await = "findOne"
  /\ handlers' =
       [handlers EXCEPT ![h] =
          IF storeFails THEN [@ EXCEPT !.await = "returned"]
          ELSE [@ EXCEPT !.await = "write", !.now = clock + 1,
                         !.existingFact =
                           FirstIndex({i \in DOMAIN facts :
                                         FactQueryMatches(facts[i],
                                                          handlers[h].normalizedFact)})]]
  /\ clock' = clock + 1
  /\ UNCHANGED <<connectionState, facts, responses, entities, last, call>>

\* await updateOne or insertOne, and the return of the result
WriteSettles(h, storeFails) ==
  /\ handlers[h].await = "write"
  /\ facts' = IF storeFails THEN facts
              ELSE writeFact(facts, handlers[h].existingFact, handlers[h].normalizedFact,
                             handlers[h].now)
  /\ handlers' = [handlers EXCEPT ![h] =
                    [@ EXCEPT !.await = "returned",
                              !.result = [success |-> ~storeFails,
                                          updated |-> ~storeFails
                                                      /\ handlers[h].existingFact # NoIndex]]]
  /\ UNCHANGED <<connectionState, responses, entities, clock, last, call>>

NextFacts ==
  \/ \E factData \in FactData : SaveFactCalled(factData)
  \/ \E h \in DOMAIN handlers, storeFails \in BOOLEAN : FindOneSettles(h, storeFails)
  \/ \E h \in DOMAIN handlers, storeFails \in BOOLEAN : WriteSettles(h, storeFails)

SpecFacts == Init /\ [][NextFacts]_vars

(***************************************************************************)
(* processMessage await by await, for the messages of one event.  The      *)
(* handler of the event is handlers[1]: pending counts the messages it has *)
(* not finished, learning says whether the message it works on is a        *)
(* learning command, hit whether findResponseByKeywords found a response,  *)
(* and steps lists the calls the message has awaited so far, the last one  *)
(* being the one it waits for.                                             *)
(***************************************************************************)
NoSteps == <<>>

\* the facts one message can have translated: the loop over them awaits saveFact
\* once for each
MaxFatos == 2

Awaited(steps, await) == Cardinality({k \in DOMAIN steps : steps[k] = await})

\* an event with n messages is emitted and processMessage runs for the first
\* one up to its first await
UpsertReceived(n, learning) ==
  /\ handlers = <<>>
  /\ handlers' = <<[pending |-> n, learning |-> learning, hit |-> FALSE,
                    steps |-> <<"presenceSubscribe">>]>>
  /\ UNCHANGED <<connectionState, facts, responses, entities, clock, last, call>>

\* the awaited call settles and processMessage runs to its next await; the
\* lookup of a cached response settles with a hit or a miss
CallSettles(next, hit) ==
  /\ handlers # <<>>
  /\ handlers[1].steps # NoSteps
  /\ hit = handlers[1].hit \/ handlers[1].steps[Len(handlers[1].steps)] = "findResponseByKeywords"
  /\ next \in NextAwaits(handlers[1].steps[Len(handlers[1].steps)], handlers[1].learning, hit)
  /\ next = "saveFact" => Awaited(handlers[1].steps, "saveFact") < MaxFatos
  /\ handlers' = <<[handlers[1] EXCEPT !.hit = hit, !.steps = Append(@, next)]>>
  /\ UNCHANGED <<connectionState, facts, responses, entities, clock, last, call>>

\* the last await settles and processMessage returns: the loop of the handler
\* takes the next message of the event, or the handler returns
MessageDone(learning) ==
  /\ handlers # <<>>
  /\ handlers[1].steps # NoSteps
  /\ handlers[1].steps[Len(handlers[1].steps)] = "paused"
  /\ handlers' = IF handlers[1].pending > 1
                 THEN <<[pending |-> handlers[1].pending - 1, learning |-> learning,
                         hit |-> FALSE, steps |-> <<"presenceSubscribe">>]>>
                 ELSE <<[pending |-> 0, learning |-> FALSE, hit |-> FALSE,
                         steps |-> NoSteps]>>
  /\ UNCHANGED <<connectionState, facts, responses, entities, clock, last, call>>

NextSteps ==
  \/ \E n \in 1..MaxBatch, learning \in BOOLEAN : UpsertReceived(n, learning)
  \/ \E next \in {"sendPresenceUpdate", "findResponseByKeywords", "getOpenAIResponse",
                  "findFact", "saveResponse", "saveFact", "sendMessage",
                  "sendMessageUnquoted", "paused"}, hit \in BOOLEAN : CallSettles(next, hit)
  \/ \E learning \in BOOLEAN : MessageDone(learning)

SpecSteps == Init /\ [][NextSteps]_vars

(***************************************************************************)
(* Learning commands and questions of two senders.  Each learning command  *)
(* carries a batch of entries of the classifier: relations of the sender   *)
(* under two keys, properties of two concepts under one key, names, and an *)
(* identity whose subject is a third party named like a sender's id.       *)
(***************************************************************************)
TwoSenders == {"5511@s.whatsapp.net", "5522@s.whatsapp.net"}

Irmao(valor) == Entrada("fato_relacao", Sujeito("USUÁRIO", "usuario"),
                        Predicado("irmao", "irmao"), Terceiro(valor), "ALTA")
Cor(conceito, valor) == Entrada("fato_propriedade", Sujeito("CONCEITO", conceito),
                                Predicado("cores", valor), NoObject, "ALTA")
CorDe(sujeito, valor) == Entrada("fato_propriedade", sujeito, Predicado("cores", valor),
                                 NoObject, "ALTA")
NomeDe(terceiro, valor) == Entrada("fato_identidade", Sujeito("TERCEIRO", terceiro),
                                   Predicado("nome", valor), NoObject, "ALTA")

LearnedBatches ==
  {<<Amigo("Bia")>>, <<Irmao("Dan")>>, <<Amigo("Bia"), Irmao("Dan")>>, <<Amigo("Dan")>>,
   <<Cor("carro", "azul")>>, <<Cor("Casa ", "verde")>>,
   <<Cor("carro", "azul"), Cor("Casa ", "verde")>>,
   <<CorDe(Sujeito("USUÁRIO", "usuario"), "azul")>>,
   <<CorDe(Sujeito("TERCEIRO", "Geral"), "preto")>>,
   <<NomeAna>>, <<NomeDe("5522", "Eve")>>, <<>>}

PerguntaRelacao == Taxonomia("pergunta", "USUÁRIO", "RELAÇÃO")
PerguntaPropriedade == Taxonomia("pergunta", "CONCEITO", "PROPRIEDADE")

LearningQuestions ==
  {[text |-> "quem são meus amigos", analise |-> PerguntaRelacao],
   [text |-> "qual é meu nome", analise |-> PerguntaNome],
   [text |-> "quais as cores do carro", analise |-> PerguntaPropriedade]}

LearningRuns ==
  {[message |-> [conversation |-> "/aprender fatos", remoteJid |-> j, pushName |-> Undefined],
    env |-> Env([kind |-> "json",
                 json |-> Resposta(<<"aprendizado", "fatos">>, Informa, Guardar(b))],
                NoFault)] :
     j \in TwoSenders, b \in LearnedBatches}
  \cup {[message |-> [conversation |-> q.text, remoteJid |-> j, pushName |-> Undefined],
         env |-> Env([kind |-> "json",
                      json |-> Resposta(<<"pergunta", "dados">>, q.analise, NadaAGuardar)],
                     NoFault)] :
          j \in TwoSenders, q \in LearningQuestions}

NextLearning == \E r \in LearningRuns : ProcessMessage(r.message, r.env)

SpecLearning == Init /\ [][NextLearning]_vars

(***************************************************************************)
(* The cache of responses shared by two senders: learning commands whose   *)
(* classification names the sender in its text and is pessoal or global,   *)
(* and questions of either sender.                                         *)
(***************************************************************************)
Classifications == {"pessoal", "global"}

\* the classifier's answer to a learning command of sender id
Anotado(palavras, entrada, id, classificacao) ==
  [Resposta(palavras, Informa, Guardar(<<entrada>>)) EXCEPT
     !.resposta = "Anotado para " \o id, !.classificacao = classificacao]

SharedQuestions == {"qual é meu nome", "o que é API", "quem é Ana", "bom dia"}

SharedCacheRuns ==
  {[message |-> [conversation |-> "/aprender meu nome é Ana", remoteJid |-> j,
                 pushName |-> Undefined],
    env |-> Env([kind |-> "json",
                 json |-> Anotado(<<"nome", "ana">>, NomeAna, Split(j, "@")[1], c)], NoFault)] :
     j \in TwoSenders, c \in Classifications}
  \cup {[message |-> [conversation |-> "/aprender API significa interface", remoteJid |-> j,
                      pushName |-> Undefined],
         env |-> Env([kind |-> "json",
                      json |-> Anotado(<<"api", "interface">>, DefinicaoApi,
                                       Split(j, "@")[1], c)], NoFault)] :
          j \in TwoSenders, c \in Classifications}
  \cup {[message |-> [conversation |-> t, remoteJid |-> j, pushName |-> Undefined],
         env |-> Env([kind |-> "json", json |-> AskName], NoFault)] :
          t \in SharedQuestions, j \in TwoSenders}

NextSharedCache == \E r \in SharedCacheRuns : ProcessMessage(r.message, r.env)

SpecSharedCache == Init /\ [][NextSharedCache]_vars

(***************************************************************************)
(* The listener of messages.upsert as a whole: the tests a message of an   *)
(* event passes before processMessage is called for it.  The events hold   *)
(* messages of a private chat and of a group, the bot's own messages       *)
(* (key.fromMe), messages without a key, a chat id or a body, and arrive   *)
(* as notify or as append, with BOT_GROUP_ONLY set or not.                 *)
(***************************************************************************)
EndsWith(s, suffix) ==
  Len(s) >= Len(suffix) /\ Slice(s, Len(s) - Len(suffix) + 1, Len(s)) = suffix

\* process.env.BOT_GROUP_ONLY === 'true' ? isGroup : true
shouldProcess(message, botGroupOnly) ==
  IF botGroupOnly = "true" THEN EndsWith(message.key.remoteJid, "@g.us") ELSE TRUE

\* a listener that lets the bot's own messages through
HandedOverWithOwn(type, message, botGroupOnly) ==
  /\ type = "notify"
  /\ message.key # NoObject /\ Truthy(message.key.remoteJid)
  /\ message.message # NoObject
  /\ shouldProcess(message, botGroupOnly)

\* the tests of the listener: TRUE when processMessage is called for the message
HandedOver(type, message, botGroupOnly) ==
  /\ type = "notify"
  /\ message.key # NoObject /\ Truthy(message.key.remoteJid)
  /\ ~message.key.fromMe
  /\ message.message # NoObject
  /\ shouldProcess(message, botGroupOnly)

\* the loop of the listener over the messages of an event: the collections it
\* leaves, the last run of processMessage and the messages it was called for
RECURSIVE handleUpsert(_, _, _, _, _, _, _, _)
handleUpsert(factsColl, responsesColl, run, type, messages, botGroupOnly, env, now) ==
  IF Len(messages) = 0
  THEN [facts |-> factsColl, responses |-> responsesColl, run |-> run, handed |-> <<>>]
  ELSE IF ~HandedOver(type, Head(messages), botGroupOnly)
  THEN handleUpsert(factsColl, responsesColl, run, type, Tail(messages), botGroupOnly,
                    env, now)
  ELSE Only({
         Only({[rest EXCEPT !.handed = <<Head(messages)>> \o rest.handed] :
               rest \in {handleUpsert(done.facts, done.responses, done.run, type,
                                      Tail(messages), botGroupOnly, env, now)}}) :
         done \in {processMessage(factsColl, responsesColl,
                                  [conversation |-> Head(messages).message.conversation,
                                   remoteJid |-> Head(messages).key.remoteJid,
                                   pushName |-> Undefined],
                                  env, now)}})

Key(remoteJid, fromMe) == [remoteJid |-> remoteJid, fromMe |-> fromMe]
Body(text) == [conversation |-> text]

UpsertMessages ==
  {[key |-> Key("5511@s.whatsapp.net", FALSE), message |-> Body("qual é meu nome")],
   [key |-> Key("5511@s.whatsapp.net", FALSE), message |-> Body("/aprender meu nome é Ana")],
   [key |-> Key("1203@g.us", FALSE), message |-> Body("qual é meu nome")],
   [key |-> Key("5511@s.whatsapp.net", TRUE),
    message |-> Body("*" \o BOT_NAME \o "*\n\nArmazenei esta informação")],
   [key |-> Key("1203@g.us", TRUE), message |-> Body("/aprender meu nome é Bot")],
   [key |-> Key("5511@s.whatsapp.net", FALSE), message |-> NoObject],
   [key |-> Key(Undefined, FALSE), message |-> Body("qual é meu nome")],
   [key |-> NoObject, message |-> Body("qual é meu nome")]}

UpsertEvents ==
  {<<m>> : m \in UpsertMessages}
  \cup {<<m, n>> : m \in {x \in UpsertMessages : x.key # NoObject /\ x.key.fromMe},
                   n \in {x \in UpsertMessages : x.key # NoObject /\ ~x.key.fromMe}}

\* an event is emitted and its listener runs to its end
MessagesUpsert(type, messages, botGroupOnly) ==
  /\ clock < MaxMessages
  /\ \E done \in {handleUpsert(facts, responses, last, type, messages, botGroupOnly,
                               Env([kind |-> "json", json |-> Sample], NoFault),
                               clock + 1)} :
       /\ facts' = done.facts
       /\ responses' = done.responses
       /\ last' = done.run
       /\ call' = [op |-> "messages.upsert", type |-> type, messages |-> messages,
                   botGroupOnly |-> botGroupOnly, handed |-> done.handed]
  /\ clock' = clock + 1
  /\ UNCHANGED <<connectionState, entities, handlers>>

NextUpsert ==
  \E type \in {"notify", "append"}, messages \in UpsertEvents,
     botGroupOnly \in {"true", "false", Undefined} :
    MessagesUpsert(type, messages, botGroupOnly)

SpecUpsert == Init /\ [][NextUpsert]_vars

(***************************************************************************)
(* startWhatsAppConnection and the listener of connection.update.  A call  *)
(* of startWhatsAppConnection makes a socket or throws; every socket made  *)
(* goes on emitting connection.update, also after a later one was made; a  *)
(* timer set by setTimeout calls startWhatsAppConnection again.            *)
(***************************************************************************)
MAX_RECONNECT_ATTEMPTS == 5

MaxSockets == 2
MaxTimers == 2

\* DisconnectReason: the status codes of lastDisconnect.error.output
DisconnectReasons == {"loggedOut", "connectionClosed", "restartRequired"}

\* lastDisconnect of an update: absent, or with a status code
LastDisconnects == {NoObject} \cup {[statusCode |-> c] : c \in DisconnectReasons}

\* lastDisconnect?.error?.output?.statusCode !== DisconnectReason.loggedOut
shouldReconnect(lastDisconnect) ==
  lastDisconnect = NoObject \/ lastDisconnect.statusCode # "loggedOut"

\* a test that lets the counter pass the maximum
attemptsLeftInclusive(attempts) == attempts <= MAX_RECONNECT_ATTEMPTS

\* reconnectAttempts < MAX_RECONNECT_ATTEMPTS
attemptsLeft(attempts) == attempts < MAX_RECONNECT_ATTEMPTS

\* the entry point calls startWhatsAppConnection(db)
StartWhatsAppConnection ==
  /\ starting = 0 /\ timers = 0 /\ sockets = 0
  /\ starting' = 1
  /\ call' = [op |-> "startWhatsAppConnection"]
  /\ UNCHANGED <<facts, responses, entities, clock, last, handlers,
                 reconnectAttempts, timers, sockets>>

\* a timer fires: () => startWhatsAppConnection(db)
TimerFires ==
  /\ timers > 0
  /\ timers' = timers - 1
  /\ starting' = starting + 1
  /\ call' = [op |-> "timer"]
  /\ UNCHANGED <<facts, responses, entities, clock, last, handlers,
                 reconnectAttempts, sockets>>

\* the try block runs to its end: a socket is made and its listeners registered
SocketMade ==
  /\ starting > 0 /\ sockets < MaxSockets
  /\ starting' = starting - 1
  /\ sockets' = sockets + 1
  /\ call' = [op |-> "makeWASocket"]
  /\ UNCHANGED <<facts, responses, entities, clock, last, handlers,
                 reconnectAttempts, timers>>

\* the try block throws: the catch of startWhatsAppConnection
StartFails ==
  /\ starting > 0
  /\ starting' = starting - 1
  /\ IF attemptsLeft(reconnectAttempts)
     THEN reconnectAttempts' = reconnectAttempts + 1 /\ timers' = timers + 1
     ELSE UNCHANGED <<reconnectAttempts, timers>>
  /\ call' = [op |-> "catch"]
  /\ UNCHANGED <<facts, responses, entities, clock, last, handlers, sockets>>

\* a socket emits connection.update and the listener runs
ConnectionUpdate(connection, lastDisconnect) ==
  /\ sockets > 0
  /\ (connection = "close" /\ shouldReconnect(lastDisconnect)
      /\ attemptsLeft(reconnectAttempts)) => timers + starting < MaxTimers
  /\ IF connection = "close"
     THEN IF shouldReconnect(lastDisconnect) /\ attemptsLeft(reconnectAttempts)
          THEN reconnectAttempts' = reconnectAttempts + 1 /\ timers' = timers + 1
          ELSE UNCHANGED <<reconnectAttempts, timers>>
     ELSE IF connection = "open"
     THEN reconnectAttempts' = 0 /\ timers' = timers
     ELSE UNCHANGED <<reconnectAttempts, timers>>
  /\ call' = [op |-> "connection.update", connection |-> connection,
              lastDisconnect |-> lastDisconnect]
  /\ UNCHANGED <<facts, responses, entities, clock, last, handlers, starting, sockets>>

NextConnection ==
  \/ StartWhatsAppConnection
  \/ TimerFires
  \/ SocketMade
  \/ StartFails
  \/ \E connection \in {"close", "open", "connecting", Undefined},
        lastDisconnect \in LastDisconnects :
       ConnectionUpdate(connection, lastDisconnect)

SpecConnection == Init /\ [][NextConnection]_vars

(***************************************************************************)
(* Properties                                                              *)
(***************************************************************************)

\* the run recorded in last learned, from "/aprender meu nome é Ana", the name Ana
\* of its sender and saved everything it had to save
LearnedNomeAna ==
  /\ last.handled
  /\ last.text = "/aprender meu nome é Ana"
  /\ last.adapterSuccess
  /\ \E k \in 1..Len(last.fatos) :
       /\ last.fatos[k].tipo = "nome"
       /\ last.fatos[k].entidade = last.sender
       /\ last.fatos[k].valor = "Ana"
       /\ last.saveResults[k].success
  /\ last.responseSaved

\* the message "qual é meu nome" that the language model would classify as a question
\* about the identity of the user, handled with a healthy store
AsksNome(message, env) ==
  /\ message.conversation = "qual é meu nome"
  /\ env = Env([kind |-> "json", json |-> AskName], NoFault)

\* C1: after the learning message "/aprender meu nome é Ana" of a sender has been
\* processed, the classifier yielding an identity entry about the user with the
\* value Ana, the next message "qual é meu nome" of the same sender, classified as
\* a question of category IDENTIDADE about USUÁRIO, is answered with exactly
\* "Seu nome é Ana."
C1_RoundTrip ==
  [][\A message \in Messages, env \in Environments :
       (/\ LearnedNomeAna
        /\ AsksNome(message, env)
        /\ extractSenderInfo(message).id = last.sender
        /\ ProcessMessage(message, env))
       => last'.finalResponse = "Seu nome é Ana."]_vars

\* the round trip as the code can run it: the question finds no cached answer and
\* is answered from the stored fact
C1_AnsweredFromFact ==
  /\ last.text = "qual é meu nome"
  /\ ~last.usedCache
  /\ last.consultaProcessada
  /\ last.finalResponse = "Seu nome é Ana."

\* the question is answered with the text cached for the learning command
C1_AnsweredFromCache ==
  /\ last.text = "qual é meu nome"
  /\ last.usedCache
  /\ last.finalResponse = "Armazenei esta informação"
  /\ \E k \in 1..Len(facts) : facts[k].tipo = "nome" /\ facts[k].valor = "Ana"

C3_CacheHitShortCircuits ==
  (last.handled /\ ~StartsWith(last.text, "/aprender ") /\ last.cacheHit)
    => /\ last.finalResponse =
            responses[findResponseByKeywords(responses, last.keywords, FALSE).index].resposta
       /\ last.sends[1].text = "*" \o BOT_NAME \o "*\n\n" \o last.finalResponse
       /\ last.classifierCalls = 0
       /\ last.analyzerRuns = 0
       /\ last.factLookups = 0

\* a question answered from the cache while the store holds the fact it asks for
C3_Witness ==
  /\ last.handled
  /\ ~StartsWith(last.text, "/aprender ")
  /\ last.cacheHit
  /\ last.usedCache
  /\ Len(facts) > 0

\* the natural key of a stored fact
NaturalKey(fact) ==
  <<fact.tipo, fact.chave, fact.entidade,
    IF fact.tipo = "propriedade" THEN fact.conceito ELSE Undefined>>

OneRecordPerKey(coll) ==
  \A i, j \in 1..Len(coll) : NaturalKey(coll[i]) = NaturalKey(coll[j]) => i = j

EntryValue(entrada) ==
  IF entrada.tipo = "fato_relacao" THEN ObjetoValorOf(entrada) ELSE entrada.predicado.valor

\* the value the translator hands to saveFact for an entry
TranslatedValue(entrada) == TruncateValue(Trim(normalizarValor(EntryValue(entrada))))

\* two learning commands in a row whose one entry is the same, translated into a
\* fact and saved both times
SameEntryTwice ==
  /\ last.isLearningCommand /\ last'.isLearningCommand
  /\ last.conhecimento # NoObject
  /\ last.conhecimento.armazenar
  /\ Len(last.conhecimento.entradas) = 1
  /\ last'.conhecimento = last.conhecimento
  /\ Len(last.saveResults) = 1 /\ last.saveResults[1].success
  /\ Len(last'.saveResults) = 1 /\ last'.saveResults[1].success

\* what the second save leaves, for the value the stored fact is to hold
PersistedOnce(valor) ==
  /\ Cardinality({i \in 1..Len(facts') :
                    NaturalKey(facts'[i]) = NaturalKey(last'.fatos[1])}) = 1
  /\ last'.saveResults[1].updated
  /\ (clock = 1 => ~last.saveResults[1].updated)
  /\ \A i \in 1..Len(facts') :
       NaturalKey(facts'[i]) = NaturalKey(last'.fatos[1]) => facts'[i].valor = valor

C6_OnlyAltaStored ==
  /\ \A k \in 1..Len(facts) :
       facts[k].contexto # NoObject /\ facts[k].contexto.certeza = "ALTA"
  /\ (last.translatorRuns = 1 /\ last.conhecimento # NoObject
        /\ last.conhecimento.entradas # NoEntradas)
       => Len(last.fatos) <=
            Cardinality({i \in 1..Len(last.conhecimento.entradas) :
                           CertezaOf(last.conhecimento.entradas[i]) = "ALTA"})

\* a learning command whose one entry has the certainty MÉDIA stores nothing, next
\* to a fact stored before
C6_Witness ==
  /\ last.isLearningCommand
  /\ last.translatorRuns = 1
  /\ last.conhecimento = Guardar(<<NomeAnaMedia>>)
  /\ last.fatos = <<>>
  /\ Len(facts) = 1

\* C7: every message processMessage handles as a learning command is handled as
\* one by the adapter it calls: armazenar is forced to true, the certainty of every
\* entry is ALTA, and there is at least one entry, the fallback's when the
\* classifier returned none
C7_AdapterHandlesLearning ==
  (last.handled /\ StartsWith(last.text, "/aprender ") /\ last.classifierCalls = 1)
    => /\ last.adapterLearning
       /\ last.adapterSuccess
            => /\ last.conhecimento # NoObject
               /\ last.conhecimento.armazenar
               /\ Len(last.conhecimento.entradas) > 0
               /\ \A i \in 1..Len(last.conhecimento.entradas) :
                    CertezaOf(last.conhecimento.entradas[i]) = "ALTA"

SuccessfulSaves(results) == Cardinality({k \in 1..Len(results) : results[k].success})

\* C8: the number in the confirmation of a learning command is the number of facts
\* of the batch whose save succeeded
C8_CountsSuccessfulSaves ==
  (last.isLearningCommand /\ last.responseSaves = 1
     /\ last.finalResponse # ApologySaveFailed)
    => last.finalResponse = LearningConfirmation(SuccessfulSaves(last.saveResults))

\* C9: in a learning batch every fact is passed to saveFact whatever became of the
\* facts before it and of the write to the response cache, every save that
\* succeeded is in the store, and a reply is sent
C9_FailuresDoNotBlock ==
  (last.handled /\ last.isLearningCommand /\ last.translatorRuns = 1
     /\ last.conhecimento # NoObject)
    => /\ last.responseSaves = 1
       /\ Len(last.saveResults) = Len(last.fatos)
       /\ \A k \in 1..Len(last.fatos) :
            last.saveResults[k].success
              => \E i \in 1..Len(facts) :
                   /\ NaturalKey(facts[i]) = NaturalKey(last.fatos[k])
                   /\ facts[i].valor = last.fatos[k].valor
       /\ Len(last.sends) > 0
       /\ last.sends[1].text = "*" \o BOT_NAME \o "*\n\n" \o last.finalResponse

\* the first save of a batch and the write to the response cache failed, the
\* second fact was saved and the reply was sent
C9_Witness ==
  /\ last.isLearningCommand
  /\ last.responseSaves = 1
  /\ ~last.responseSaved
  /\ Len(last.saveResults) = 2
  /\ ~last.saveResults[1].success
  /\ last.saveResults[2].success
  /\ \E i \in 1..Len(facts) : NaturalKey(facts[i]) = NaturalKey(last.fatos[2])
  /\ last.sends[Len(last.sends)].ok

\* what makes the adapter fail: the service fails, its answer is no JSON, or one of
\* the four required fields is missing
AdapterFailure(reply) ==
  \/ reply.kind \in {"service_error", "unparsable"}
  \/ /\ reply.kind = "json"
     /\ \/ reply.json.palavras_chave = NoArray
        \/ reply.json.resposta = Undefined
        \/ reply.json.classificacao = Undefined
        \/ reply.json.analise_taxonomica = NoObject

\* C10: when the adapter fails the reply is the fixed apology and no record of
\* facts, entities or responses is inserted or updated, for a learning command as
\* for any other message
C10_AdapterFailureWritesNothing ==
  [][(last'.classifierCalls = 1 /\ AdapterFailure(last'.classifierReply))
       => /\ last'.finalResponse = ApologyAdapterFailed
          /\ last'.sends[1].text = "*" \o BOT_NAME \o "*\n\n" \o ApologyAdapterFailed
          /\ facts' = facts /\ entities' = entities /\ responses' = responses]_vars

\* a learning command whose classification came without its field classificacao,
\* answered with the apology while the store keeps what it held
C10_Witness ==
  /\ last.isLearningCommand
  /\ last.classifierCalls = 1
  /\ last.classifierReply.kind = "json"
  /\ last.classifierReply.json.classificacao = Undefined
  /\ last.finalResponse = ApologyAdapterFailed
  /\ Len(facts) = 1
  /\ Len(responses) = 1


\* the descriptor the analyzer yields for the classification and the text of a run
ConsultaOf(run) ==
  analisarTaxonomia(run.classifierReply.json.analise_taxonomica, run.classifierText)

\* the text the synthesizer returns for what the lookup of a run finds in coll
SynthesizedAnswer(coll, run) ==
  construirRespostaConsulta(ConsultaOf(run),
                            resultadoDaConsulta(coll, ConsultaOf(run), [id |-> run.sender],
                                                FALSE))

\* C11: when a message that is no learning command is answered as a query (the
\* analyzer yields a descriptor, the lookup dispatched for it finds facts and the
\* synthesizer returns a text), the reply is exactly the text the synthesizer
\* builds from the facts the lookup finds, the translator is not run and facts,
\* entities and responses are left as they were
C11_QueryAnswerSkipsLearning ==
  [][(last'.handled /\ ~last'.isLearningCommand /\ last'.consultaProcessada)
       => /\ last'.consultaFound
          /\ last'.factLookups = 1
          /\ Truthy(SynthesizedAnswer(facts, last'))
          /\ last'.finalResponse = SynthesizedAnswer(facts, last')
          /\ last'.sends[1].text = "*" \o BOT_NAME \o "*\n\n" \o SynthesizedAnswer(facts, last')
          /\ last'.translatorRuns = 0
          /\ last'.responseSaves = 0
          /\ last'.saveResults = <<>>
          /\ facts' = facts /\ entities' = entities /\ responses' = responses]_vars

\* a question about a definition, classified with a knowledge block to store,
\* answered from the stored definition while nothing was translated
C11_Witness ==
  /\ last.handled
  /\ ~last.isLearningCommand
  /\ last.consultaFound
  /\ last.consultaProcessada
  /\ last.conhecimento # NoObject
  /\ last.translatorRuns = 0
  /\ \E k \in 1..Len(facts) :
       /\ facts[k].tipo = "definicao"
       /\ last.finalResponse = ToUpperCase(facts[k].chave) \o " significa " \o facts[k].valor \o "."

\* C12: a message that is no learning command and finds no cached response, for
\* which the adapter succeeds and the query path produces no answer, is replied
\* to with the resposta of the classification, whether the classification has a
\* knowledge block with entries, one without entries, or none
C12_ReplyIsClassifierText ==
  [][(/\ last'.handled /\ ~last'.isLearningCommand /\ ~last'.cacheHit
      /\ last'.adapterSuccess /\ ~last'.consultaProcessada)
       => /\ last'.finalResponse = last'.classifierReply.json.resposta
          /\ last'.sends[1].text
               = "*" \o BOT_NAME \o "*\n\n" \o last'.classifierReply.json.resposta]_vars

\* the classification of a run is in coll: an entry holds its resposta and its
\* classificacao
HoldsClassification(coll, run) ==
  \E i \in DOMAIN coll :
    /\ coll[i].resposta = run.classifierReply.json.resposta
    /\ coll[i].classificacao = run.classifierReply.json.classificacao

C15_OneRetryWithoutQuote ==
  last.handled
    => /\ Len(last.sends) \in {1, 2}
       /\ last.sends[1].quoted
       /\ last.sends[1].text = "*" \o BOT_NAME \o "*\n\n" \o last.finalResponse
       /\ last.sends[1].ok => Len(last.sends) = 1
       /\ ~last.sends[1].ok
            => /\ Len(last.sends) = 2
               /\ ~last.sends[2].quoted
               /\ last.sends[2].text = last.sends[1].text

\* both sends of a reply failed and the message was processed to its end
C15_Witness ==
  /\ last.handled
  /\ Len(last.sends) = 2
  /\ ~last.sends[1].ok
  /\ ~last.sends[2].ok
  /\ Truthy(last.finalResponse)
  /\ clock > 0

\* the fixed texts processMessage replies with when a stage fails
FallbackReplies == {ApologyAdapterFailed, ApologyException, ApologySaveFailed}

\* C16: every run of processMessage for a message with text (text that is not
\* empty once trimmed) ends with a reply text that is defined and not empty and
\* with at least one attempt to send it, prefixed with the name of the bot,
\* whatever the cache lookup (hit, miss, error), the classifier (success,
\* malformed answer, service error) and the store writes (success, failure) did;
\* a run whose classifier call or whose write to responses failed replies with
\* one of the fixed texts
C16_EveryRunReplies ==
  /\ last.handled \/ last = NoRun
  /\ last.handled
       => /\ Truthy(last.text)
          /\ Truthy(last.finalResponse)
          /\ Len(last.sends) >= 1
          /\ \A k \in 1..Len(last.sends) :
               last.sends[k].text = "*" \o BOT_NAME \o "*\n\n" \o last.finalResponse
          /\ (last.classifierCalls = 1 /\ ~last.adapterSuccess)
               => last.finalResponse \in FallbackReplies

\* a learning command handled while the cache lookup, the write to responses and
\* the save of a fact all failed, and replied to
C16_Witness ==
  /\ last.handled
  /\ last.isLearningCommand
  /\ ~last.cacheHit
  /\ last.responseSaves = 1
  /\ ~last.responseSaved
  /\ \E k \in 1..Len(last.saveResults) : ~last.saveResults[k].success
  /\ Truthy(last.finalResponse)
  /\ Len(last.sends) >= 1

\* the handlers that are inside processMessage
InProcess == {h \in DOMAIN handlers : handlers[h].await # "returned"}

\* C14: at no time are two messages being processed: while one handler is
\* inside processMessage, waiting for its classifier call, a store call or a
\* send, no other handler is, whether the messages came in one event or in two
C14_OneMessageAtATime == Cardinality(InProcess) <= 1

\* the keywords findByKeywords considers: the first min(|K|, 10) of K
Considered(keywords) == SubSeq(keywords, 1, IF Len(keywords) < 10 THEN Len(keywords) ELSE 10)

\* ceil(0.6 * n)
SixtyPercent(n) == CHOOSE m \in 0..n : 10 * m >= 6 * n /\ 10 * (m - 1) < 6 * n

\* the number of keywords an entry shares with the keywords considered
SharedKeywords(entry, keywords) ==
  Cardinality(SeqToSet(entry.palavras_chave) \cap SeqToSet(Considered(keywords)))

\* the entries of coll that qualify for keywords; none does for no keywords
Qualifying(coll, keywords) ==
  {i \in DOMAIN coll :
     /\ Len(keywords) > 0
     /\ SharedKeywords(coll[i], keywords) >= SixtyPercent(Len(Considered(keywords)))}

\* C17: findByKeywords(K), the store answering, returns an entry if and only if
\* some cached entry shares at least ceil(0.6 * n) keywords with the first
\* n = min(|K|, 10) keywords of K, and then returns the first such entry in store
\* order; an empty K never hits
C17_HitIffSixtyPercentShared ==
  (call.op = "findResponseByKeywords" /\ ~call.storeFails)
    => /\ call.result.success <=> Qualifying(responses, call.keywords) # {}
       /\ call.result.success
            => /\ call.result.index \in Qualifying(responses, call.keywords)
               /\ \A i \in Qualifying(responses, call.keywords) : call.result.index <= i
       /\ call.keywords = <<>> => ~call.result.success

\* C18: a call of saveResponse that succeeds inserts a new entry, at the end of
\* responses, only when findResponseByKeywords finds no entry for the keywords
\* of the response; when it finds one, that entry and no other is updated in
\* place (its resposta, its classificacao and its last_updated; its keywords and
\* its created_at stay) and the number of entries is unchanged; a call that
\* fails changes nothing
C18_SaveUpdatesTheEntryFound ==
  [][/\ (call'.op = "saveResponse" /\ call'.result.success)
          => LET data == call'.responseData
                 found == findResponseByKeywords(responses, data.palavras_chave,
                                                 call'.lookupFails)
             IN IF found.success
                THEN /\ call'.result.updated
                     /\ Len(responses') = Len(responses)
                     /\ \A i \in DOMAIN responses :
                          i # found.index => responses'[i] = responses[i]
                     /\ responses'[found.index] =
                          [responses[found.index] EXCEPT !.resposta = data.resposta,
                                                         !.classificacao = data.classificacao,
                                                         !.last_updated = clock']
                ELSE /\ ~call'.result.updated
                     /\ Len(responses') = Len(responses) + 1
                     /\ SubSeq(responses', 1, Len(responses)) = responses
                     /\ responses'[Len(responses')] =
                          [palavras_chave |-> data.palavras_chave,
                           resposta |-> data.resposta,
                           classificacao |-> data.classificacao,
                           created_at |-> clock', last_updated |-> clock']
     /\ (call'.op = "saveResponse" /\ ~call'.result.success) => responses' = responses]_vars

\* the first of two entries was updated by a save with other keywords than its
\* own, which it keeps
C18_Witness ==
  /\ call.op = "saveResponse"
  /\ call.result.updated
  /\ Len(responses) = 2
  /\ responses[1].palavras_chave = Cadastro
  /\ call.responseData.palavras_chave = Endereco
  /\ responses[1].resposta = call.responseData.resposta
  /\ responses[1].last_updated = clock
  /\ responses[1].created_at < clock

\* the entries of a batch whose contexto.certeza is ALTA
HasAltaContext(entrada) == entrada.contexto # NoObject /\ entrada.contexto.certeza = "ALTA"
AltaOnly(conhecimento) == [conhecimento EXCEPT !.entradas = SelectSeq(@, HasAltaContext)]

\* C19: certainty gate: the facts traduzirParaModeloDados returns for a batch
\* are the facts it returns for the batch without its entries of certainty
\* MÉDIA, BAIXA or without contexto, so that no returned fact derives from
\* such an entry, whatever its other fields are
C19_OnlyAltaEntriesYieldFacts ==
  call.op \in {"fatos", "saved"}
    => call.fatos = traduzirParaModeloDados(AltaOnly(call.conhecimento), UserId, clock)

\* a batch of a valid entry that is not ALTA followed by a valid ALTA entry has
\* been translated into the one fact of the second
C19_Witness ==
  /\ call.op = "fatos"
  /\ call.conhecimento.armazenar
  /\ Len(call.conhecimento.entradas) = 2
  /\ call.conhecimento.entradas[1].tipo = "fato_identidade"
  /\ ~HasAltaContext(call.conhecimento.entradas[1])
  /\ call.conhecimento.entradas[2].tipo = "fato_definicao"
  /\ HasAltaContext(call.conhecimento.entradas[2])
  /\ Len(call.fatos) = 1
  /\ call.fatos[1].tipo = "definicao"

\* C20: circularity rejection: no stored relation fact relates an entity to
\* itself, that is, none names its own entidade in relacionamentos
C20_NoStoredSelfRelation ==
  \A i \in DOMAIN facts :
    facts[i].tipo = "relacao"
      => \A r \in DOMAIN facts[i].relacionamentos :
           facts[i].relacionamentos[r].entidade # facts[i].entidade

\* the facts of a batch entry by entry: what traduzirParaModeloDados returns for
\* each entry translated alone, in batch order
RECURSIVE FactsEntryByEntry(_, _)
FactsEntryByEntry(entradas, now) ==
  IF Len(entradas) = 0 THEN <<>>
  ELSE traduzirParaModeloDados([armazenar |-> TRUE, entradas |-> <<Head(entradas)>>],
                               UserId, now)
       \o FactsEntryByEntry(Tail(entradas), now)

Triple(fato) == <<fato.tipo, fato.chave, fato.entidade>>

\* the facts of a sequence that are the first of their (kind, key, entity)
FirstOfTriple(fatos) ==
  {i \in DOMAIN fatos : \A j \in 1..(i - 1) : Triple(fatos[j]) # Triple(fatos[i])}

\* C21: deduplication: for every (kind, key, entity) that several valid entries
\* of the batch map to, the output holds exactly one fact, the fact of the first
\* such entry, and the retained facts are in batch order
C21_FirstOfEachTripleInBatchOrder ==
  (call.op \in {"fatos", "saved"} /\ call.conhecimento.armazenar)
    => \E fatos \in {FactsEntryByEntry(call.conhecimento.entradas, clock)} :
         /\ \A i \in FirstOfTriple(fatos) :
              (\E j \in DOMAIN fatos : j > i /\ Triple(fatos[j]) = Triple(fatos[i]))
                => /\ Cardinality({k \in DOMAIN call.fatos :
                                    Triple(call.fatos[k]) = Triple(fatos[i])}) = 1
                   /\ \E k \in DOMAIN call.fatos : call.fatos[k] = fatos[i]
         /\ \A k, l \in DOMAIN call.fatos :
              k < l => \E i, j \in DOMAIN fatos :
                         i < j /\ fatos[i] = call.fatos[k] /\ fatos[j] = call.fatos[l]

\* the value of a definition entry as it reaches the final checks: normalised
\* and trimmed
FactValue(entrada) == Trim(normalizarValor(entrada.predicado.valor))

\* the stored definition facts of the user's batch
StoredDefinitions == {i \in DOMAIN facts : facts[i].tipo = "definicao"}

\* C22: truncation: a fact value longer than 500 characters is stored as its
\* first 500 characters followed by "...", and a value of at most 500
\* characters is stored as it is
C22_StoredValueCutAt500 ==
  (call.op = "saved" /\ call.conhecimento.entradas \in {<<e>> : e \in LongEntries}
   /\ call.conhecimento.armazenar)
    => \E v \in {FactValue(call.conhecimento.entradas[1])} :
         /\ Cardinality(StoredDefinitions) = 1
         /\ \A i \in StoredDefinitions :
              /\ Len(v) > 500 => /\ Len(facts[i].valor) = 503
                                 /\ SubSeq(facts[i].valor, 1, 500) = SubSeq(v, 1, 500)
                                 /\ SubSeq(facts[i].valor, 501, 503) = "..."
              /\ Len(v) <= 500 => facts[i].valor = v

\* a value of 600 characters has been stored as 503 characters
C22_Witness ==
  /\ call.op = "saved"
  /\ Len(call.conhecimento.entradas) = 1
  /\ Len(call.conhecimento.entradas[1].predicado.valor) = 600
  /\ Len(facts) = 1
  /\ Len(facts[1].valor) = 503

AliasSet(entity) == SeqToSet(AliasOrEmpty(entity.alias))

NoRepeats(seq) == \A i, j \in DOMAIN seq : seq[i] = seq[j] => i = j

\* C23: after any sequence of entity saves no alias that was stored for an
\* entity is lost and no alias list holds an alias twice; a save of an entity
\* that exists leaves it with its previous and the supplied aliases
C23_AliasesMergedWithoutRepeats ==
  [][call'.op = "saveEntity"
       => /\ \A i \in DOMAIN entities : AliasSet(entities[i]) \subseteq AliasSet(entities'[i])
          /\ call'.result.updated
               => \E i \in DOMAIN entities :
                    AliasSet(entities'[i]) =
                      AliasSet(entities[i]) \cup AliasSet(call'.entityData)
          /\ \A i \in DOMAIN entities' : NoRepeats(AliasOrEmpty(entities'[i].alias))]_vars

\* C24: after any sequence of entity saves there is at most one entity record
\* per normalized name
C24_OneEntityPerNormalizedName ==
  \A i, j \in DOMAIN entities :
    entities[i].nome_normalizado = entities[j].nome_normalizado => i = j

\* the analysis the classifier returned in the last run
AnalysisOf(run) == run.classifierReply.json.analise_taxonomica

\* the value analisarTaxonomia extracts from the text of the run for its target
ExtractedValue(run) ==
  parametrosDaConsulta(AnalysisOf(run).sujeito_principal,
                       tipoDaCategoria(AnalysisOf(run).categoria_conhecimento),
                       run.text).valor

\* the cases in which the analyzer returns no descriptor
NotAQuestion(run) == AnalysisOf(run).tipo_interacao # "pergunta"
UnknownCategory(run) ==
  AnalysisOf(run).categoria_conhecimento
    \notin {"IDENTIDADE", "RELAÇÃO", "DEFINIÇÃO", "PROPRIEDADE"}
NoValueForTarget(run) ==
  /\ AnalysisOf(run).sujeito_principal \in {"TERCEIRO", "CONCEITO"}
  /\ ~UnknownCategory(run)
  /\ Falsy(ExtractedValue(run))

\* C25: when the interaction is not a question, the category is none of the
\* four known ones, or the target is a third party or a concept and no value
\* was extracted from the text, the analyzer returns no descriptor, the run
\* looks up no fact and goes on to the translation and the classifier's text
C25_NoDescriptorNoLookup ==
  (last.analyzerRuns = 1
   /\ (NotAQuestion(last) \/ UnknownCategory(last) \/ NoValueForTarget(last)))
    => /\ ~last.consultaFound
       /\ last.factLookups = 0
       /\ ~last.consultaProcessada
       /\ last.translatorRuns = 1
       /\ last.finalResponse = last.classifierReply.json.resposta

\* a question about a third party whose text names none was analysed after the
\* store had learned facts, and was answered with the classifier's text
C25_Witness ==
  /\ last.analyzerRuns = 1
  /\ Len(facts) > 0
  /\ ~NotAQuestion(last)
  /\ AnalysisOf(last).sujeito_principal = "TERCEIRO"
  /\ AnalysisOf(last).categoria_conhecimento = "RELAÇÃO"
  /\ last.text = "qual é meu nome"
  /\ NoValueForTarget(last)
  /\ last.factLookups = 0
  /\ Len(last.sends) > 0

\* the tokens of a text: the words of the lower-cased text without punctuation
TokensOf(text) ==
  IF Falsy(text) THEN <<>>
  ELSE Split(CollapseSpaces(RemoveChars(ToLowerCase(text), KeywordPunctuation)), " ")

\* the tokens that can be keywords
Eligible(text) == {w \in SeqToSet(TokensOf(text)) : Len(w) > 2 /\ w \notin STOP_WORDS}

Frequency(text, w) == Cardinality({i \in DOMAIN TokensOf(text) : TokensOf(text)[i] = w})

FirstSeen(text, w) == CHOOSE i \in DOMAIN TokensOf(text) :
                        /\ TokensOf(text)[i] = w
                        /\ \A j \in 1..(i - 1) : TokensOf(text)[j] # w

\* v comes before w: it is more frequent, or as frequent and seen first
RanksBefore(text, v, w) ==
  \/ Frequency(text, v) > Frequency(text, w)
  \/ Frequency(text, v) = Frequency(text, w) /\ FirstSeen(text, v) < FirstSeen(text, w)

\* C26: extractKeywords(text, maxKeywords) returns the first maxKeywords of the
\* distinct tokens longer than 2 characters and outside the stop words, ordered
\* by descending frequency and, among equally frequent ones, by first
\* appearance; an empty or missing text yields the empty sequence
C26_TopTokensByFrequencyThenFirstSeen ==
  call.op = "extractKeywords"
    => /\ Len(call.keywords) <= call.maxKeywords
       /\ NoRepeats(call.keywords)
       /\ SeqToSet(call.keywords) \subseteq Eligible(call.text)
       /\ \A i, j \in DOMAIN call.keywords :
            i < j => RanksBefore(call.text, call.keywords[i], call.keywords[j])
       /\ \A w \in Eligible(call.text) \ SeqToSet(call.keywords) :
            /\ Len(call.keywords) = call.maxKeywords
            /\ \A i \in DOMAIN call.keywords : RanksBefore(call.text, call.keywords[i], w)
       /\ Falsy(call.text) => call.keywords = <<>>

SameNaturalKey(f, g) == f.tipo = g.tipo /\ f.chave = g.chave /\ f.entidade = g.entidade

\* the calls of saveFact that read no existing record and then wrote
InsertedBlind == {h \in DOMAIN handlers : /\ handlers[h].await = "returned"
                                          /\ handlers[h].result.success
                                          /\ handlers[h].existingFact = NoIndex}

\* C27: two calls of saveFact for one natural key that both read no existing
\* record before either writes both insert: the collection then holds two
\* records for that key, and nothing in saveFact prevents it
C27_BothBlindWritersInsert ==
  \A g, h \in InsertedBlind :
    (g # h /\ SameNaturalKey(handlers[g].normalizedFact, handlers[h].normalizedFact))
      => Cardinality({i \in DOMAIN facts :
                        SameNaturalKey(facts[i], handlers[h].normalizedFact)}) >= 2

\* two calls for the name of the user have both inserted
C27_Witness ==
  /\ Cardinality(InsertedBlind) = 2
  /\ Len(facts) = 2
  /\ SameNaturalKey(facts[1], facts[2])
  /\ facts[1].tipo = "nome"
  /\ facts[1].valor # facts[2].valor

\* C30: an update of a stored fact by a fact that supplies relationships
\* leaves the record with the relationships it had and the new ones
C30_RelationshipsPreservedAndExtended ==
  [][\A h \in DOMAIN handlers :
       (/\ handlers[h].await = "write"
        /\ handlers'[h].await = "returned"
        /\ handlers'[h].result.updated
        /\ Len(handlers[h].normalizedFact.relacionamentos) > 0)
         => /\ SeqToSet(facts[handlers[h].existingFact].relacionamentos)
                 \subseteq SeqToSet(facts'[handlers[h].existingFact].relacionamentos)
            /\ SeqToSet(NormalizeRelationships(handlers[h].normalizedFact.relacionamentos))
                 \subseteq SeqToSet(facts'[handlers[h].existingFact].relacionamentos)]_vars

\* the calls the message being processed has awaited so far
StepsOfMessage == IF handlers = <<>> THEN NoSteps ELSE handlers[1].steps

Sends == {"sendMessage", "sendMessageUnquoted"}
StoreWrites == {"saveResponse", "saveFact"}
AfterClassification == {"findFact", "saveResponse", "saveFact"}

YieldsFact(entrada) ==
  /\ ~traduzirThrows(Guardar(<<entrada>>))
  /\ Len(traduzirParaModeloDados(Guardar(<<entrada>>), UserId, 1)) = 1

OnlyYielding(conhecimento) == [conhecimento EXCEPT !.entradas = SelectSeq(@, YieldsFact)]

RelationFactsOf(run) ==
  SelectSeq(facts, LAMBDA f : f.tipo = "relacao" /\ f.entidade = run.sender)

ValuesUnder(key, fatos) ==
  LET under == SelectSeq(fatos, LAMBDA f : f.chave = key)
  IN [k \in DOMAIN under |-> under[k].valor]

\* the text that lists values under the label of a relation key
RelationAnswer(key, values) ==
  IF key = "amigo"
  THEN (IF Len(values) = 1 THEN "Seu amigo é " \o values[1] \o "."
        ELSE "Seus amigos são: " \o JoinWith(values, ", ") \o ".")
  ELSE key \o ": " \o JoinWith(values, ", ")

SelfRelationQuery(run) ==
  /\ run.handled /\ ~run.isLearningCommand /\ run.consultaProcessada
  /\ ConsultaOf(run).tipo = "relacao" /\ ConsultaOf(run).alvo = "usuario"

\* C31: the answer to a relation query about the sender is the list of the
\* values of the sender's relation facts that share one key, under the label
\* of that key; no value stored under another key is in it
C31_SelfRelationAnswerListsOneKey ==
  SelfRelationQuery(last)
    => \E k \in DOMAIN RelationFactsOf(last) :
         last.finalResponse =
           RelationAnswer(RelationFactsOf(last)[k].chave,
                          ValuesUnder(RelationFactsOf(last)[k].chave, RelationFactsOf(last)))

ConceptFacts == SelectSeq(facts, LAMBDA f : Truthy(f.conceito))

PointsToConcept(doc) ==
  \E r \in DOMAIN doc.relacionamentos :
    /\ doc.relacionamentos[r].tipo = "propriedade_de"
    /\ doc.relacionamentos[r].entidade = doc.conceito

\* C32: a stored fact has a concept only when it is a property of the entity
\* "geral" (a fact of a sender or of a third party has none), and a fact with
\* a concept has a relationship propriedade_de to that concept
C32_ConceptOnlyOnGeneralProperties ==
  \A k \in DOMAIN facts :
    Truthy(facts[k].conceito)
      => /\ facts[k].tipo = "propriedade"
         /\ facts[k].entidade = "geral"
         /\ PointsToConcept(facts[k])

\* the property of a concept was stored and then updated by the property of a
\* third party named "geral", which has no concept and no relationship
C32_Witness ==
  /\ last.isLearningCommand /\ Len(last.fatos) = 1
  /\ last.fatos[1].tipo = "propriedade" /\ last.fatos[1].entidade = "geral"
  /\ Falsy(last.fatos[1].conceito) /\ last.fatos[1].relacionamentos = <<>>
  /\ Len(ConceptFacts) = 1
  /\ ConceptFacts[1].last_updated > ConceptFacts[1].created_at
  /\ ConceptFacts[1].valor = last.fatos[1].valor

\* the natural key of a translated fact: kind, key and entity, and the concept
\* of the property of a concept
FullKey(fato) ==
  <<fato.tipo, fato.chave, fato.entidade,
    IF fato.tipo = "propriedade" /\ Truthy(fato.conceito) THEN fato.conceito ELSE Undefined>>

\* the facts of the batch of a run before the removal of duplicates
TranslatedOf(run) == TraduzirEntradas(run.conhecimento.entradas, run.sender, clock)

\* C33: a fact of a batch is dropped only when an earlier fact of the batch has
\* the same kind, key and entity and, for the property of a concept, the same
\* concept: the facts retained are the first of each full key, in batch order,
\* so the same property of two concepts is retained, and stored, twice
C33_DroppedOnlyOnFullKey ==
  (last.isLearningCommand /\ last.translatorRuns = 1)
    => /\ \A k \in DOMAIN TranslatedOf(last) :
            (\A j \in 1..(k - 1) : FullKey(TranslatedOf(last)[j]) # FullKey(TranslatedOf(last)[k]))
              => \E i \in DOMAIN last.fatos :
                   /\ FullKey(last.fatos[i]) = FullKey(TranslatedOf(last)[k])
                   /\ last.fatos[i].valor = TranslatedOf(last)[k].valor
       /\ \A k \in DOMAIN last.fatos :
            Truthy(last.fatos[k].conceito)
              => \E i \in DOMAIN facts :
                   /\ FullKey(facts[i]) = FullKey(last.fatos[k])
                   /\ facts[i].valor = last.fatos[k].valor

SenderIds == {Split(j, "@")[1] : j \in TwoSenders}

\* the stored facts whose entity is the id of a sender
FactsOfSender(coll, id) == SelectSeq(coll, LAMBDA f : f.entidade = id)

\* C34: a message of one sender leaves the facts whose entity is the id of
\* another sender as they were: none is inserted and none is modified
C34_OtherSendersFactsUntouched ==
  [][\A id \in SenderIds :
       (last'.handled /\ last'.sender # id)
         => FactsOfSender(facts', id) = FactsOfSender(facts, id)]_vars

\* the run of processMessage, in the current state, for a question of a sender
QuestionRunOf(text, jid) ==
  processMessage(facts, responses,
                 [conversation |-> text, remoteJid |-> jid, pushName |-> Undefined],
                 Env([kind |-> "json", json |-> AskName], NoFault), clock + 1).run

\* C35: a message that is no learning command is answered from the cache
\* exactly when an entry of responses qualifies for its keywords, with the text
\* of the first such entry, whoever sends it and whatever the classification of
\* the entry: in every state the same question gets the same cached answer for
\* every sender
C35_CacheLookupIgnoresSender ==
  [][/\ (last'.handled /\ ~last'.isLearningCommand)
          => /\ last'.usedCache <=> Qualifying(responses, last'.keywords) # {}
             /\ last'.usedCache
                  => last'.finalResponse =
                       responses[FirstIndex(Qualifying(responses, last'.keywords))].resposta
     /\ \A t \in SharedQuestions, j1, j2 \in TwoSenders :
          /\ QuestionRunOf(t, j1).usedCache = QuestionRunOf(t, j2).usedCache
          /\ QuestionRunOf(t, j1).usedCache
               => QuestionRunOf(t, j1).finalResponse = QuestionRunOf(t, j2).finalResponse]_vars

\* the answer cached as pessoal for the learning command of 5511 was returned
\* to the question of 5522
C35_Witness ==
  /\ last.handled /\ ~last.isLearningCommand /\ last.usedCache
  /\ last.sender = "5522"
  /\ last.finalResponse = "Anotado para 5511"
  /\ Len(responses) = 1 /\ responses[1].classificacao = "pessoal"

\* responses after one insert at its end or one update in place of what the
\* classifier returned in a run
CacheWrittenOnce(before, after, run) ==
  LET data == run.classifierReply.json
  IN \/ /\ Len(after) = Len(before) + 1
        /\ SubSeq(after, 1, Len(before)) = before
        /\ after[Len(after)].palavras_chave = data.palavras_chave
        /\ after[Len(after)].resposta = data.resposta
     \/ /\ Len(after) = Len(before)
        /\ \E i \in DOMAIN before :
             /\ after[i].resposta = data.resposta
             /\ after[i].classificacao = data.classificacao
             /\ after[i].palavras_chave = before[i].palavras_chave
             /\ \A j \in DOMAIN before : j # i => after[j] = before[j]

\* C36: a learning command whose classification succeeded saves the response
\* once (one insert or one update in place, when the store accepts the write)
\* and is answered with the confirmation "Aprendizado concluído" and the number
\* of facts translated, 0 when the translator returns none
C36_LearningAlwaysCachesAndConfirms ==
  [][(last'.handled /\ last'.isLearningCommand /\ last'.adapterSuccess)
       => /\ last'.responseSaves = 1
          /\ last'.responseSaved => CacheWrittenOnce(responses, responses', last')
          /\ last'.finalResponse =
               "Aprendizado concluído com sucesso. " \o NatToString(Len(last'.fatos))
                 \o " fatos foram armazenados."]_vars

\* C37: after a save that succeeds for a response with keywords, a lookup with
\* the same keywords finds an entry; no call removes an entry or changes the
\* keywords or the creation time of one, and an entry that changes differs in
\* its resposta, its classificacao and its last_updated alone
C37_SavedKeywordsAreFoundAndKept ==
  [][/\ (call'.op = "saveResponse" /\ call'.result.success
         /\ Len(call'.responseData.palavras_chave) > 0)
          => findResponseByKeywords(responses', call'.responseData.palavras_chave,
                                    FALSE).success
     /\ Len(responses') >= Len(responses)
     /\ \A i \in DOMAIN responses :
          /\ responses'[i].palavras_chave = responses[i].palavras_chave
          /\ responses'[i].created_at = responses[i].created_at
          /\ responses'[i] =
               [responses[i] EXCEPT !.resposta = responses'[i].resposta,
                                    !.classificacao = responses'[i].classificacao,
                                    !.last_updated = responses'[i].last_updated]]_vars

\* an entry updated in place by a save with other keywords than its own is
\* found by a lookup with the keywords of that save
C37_Witness ==
  /\ call.op = "findResponseByKeywords" /\ call.result.success
  /\ responses[call.result.index].last_updated > responses[call.result.index].created_at
  /\ responses[call.result.index].palavras_chave # call.keywords
  /\ Len(responses) = 1

\* the facts of a run that saveFact looks up under the key of a record
SavedUnder(doc, run) ==
  SelectSeq(run.fatos, LAMBDA f : f.tipo = doc.tipo /\ f.chave = doc.chave
                                    /\ f.entidade = doc.entidade)

\* C38: a save leaves the kind, the key, the entity, the concept and the
\* creation time of every existing record as they were; a record that changes
\* differs in its valor, last_updated and contexto, and in its relacionamentos
\* only when a fact saved under its key supplies a list that is not empty,
\* which then replaces them
C38_UpdateFrame ==
  [][\A i \in DOMAIN facts :
       /\ facts'[i] = [facts[i] EXCEPT !.valor = facts'[i].valor,
                                       !.last_updated = facts'[i].last_updated,
                                       !.contexto = facts'[i].contexto,
                                       !.relacionamentos = facts'[i].relacionamentos]
       /\ facts'[i].relacionamentos # facts[i].relacionamentos
            => \E k \in DOMAIN SavedUnder(facts[i], last') :
                 /\ Len(SavedUnder(facts[i], last')[k].relacionamentos) > 0
                 /\ facts'[i].relacionamentos = SavedUnder(facts[i], last')[k].relacionamentos
       /\ facts'[i] # facts[i]
            => /\ facts'[i].last_updated = clock'
               /\ \E k \in DOMAIN SavedUnder(facts[i], last') :
                    facts'[i].valor = SavedUnder(facts[i], last')[k].valor]_vars

\* the friend of a sender was stored and then replaced: the record has the new
\* value and the new relationship and the creation time of the first save
C38_Witness ==
  /\ last.isLearningCommand /\ Len(last.fatos) = 1 /\ last.fatos[1].chave = "amigo"
  /\ \E i \in DOMAIN facts :
       /\ facts[i].tipo = "relacao" /\ facts[i].chave = "amigo"
       /\ facts[i].entidade = last.sender
       /\ facts[i].valor = "Dan"
       /\ facts[i].relacionamentos[1].entidade = "dan"
       /\ facts[i].created_at < facts[i].last_updated

\* C39: the listener calls processMessage for a message only when the event is
\* of type notify, the message has a key with a chat id, is not the bot's own
\* (key.fromMe), has a body and, when BOT_GROUP_ONLY is "true", comes from a
\* group; an event none of whose messages is handed over changes nothing and is
\* not replied to, so the bot's own replies are never processed
C39_OnlyForeignNotifiedMessagesAreProcessed ==
  [][call'.op = "messages.upsert"
       => /\ \A k \in DOMAIN call'.handed :
               /\ call'.type = "notify"
               /\ call'.handed[k].key # NoObject
               /\ Truthy(call'.handed[k].key.remoteJid)
               /\ ~call'.handed[k].key.fromMe
               /\ call'.handed[k].message # NoObject
               /\ call'.botGroupOnly = "true"
                    => EndsWith(call'.handed[k].key.remoteJid, "@g.us")
          /\ call'.handed = <<>>
               => facts' = facts /\ responses' = responses /\ last' = last]_vars

\* an event held a reply of the bot and the question of a user: the question
\* alone was handed over, and answered
C39_Witness ==
  /\ call.op = "messages.upsert" /\ call.type = "notify"
  /\ Len(call.messages) = 2
  /\ call.messages[1].key.fromMe
  /\ call.handed = <<call.messages[2]>>
  /\ last.handled /\ Len(last.sends) > 0
  /\ last.text = call.messages[2].message.conversation

\* C40: the counter of reconnections is within 0..5 in every state; a step that
\* sets a timer for a reconnection starts with the counter below 5 and adds
\* exactly one to it, and the counter changes in no other way but the reset to
\* 0 when a connection opens; a close by logout sets no timer
C40_ReconnectCounterBounded ==
  [][/\ reconnectAttempts \in 0..5 /\ reconnectAttempts' \in 0..5
     /\ timers' > timers
          => /\ reconnectAttempts < 5
             /\ reconnectAttempts' = reconnectAttempts + 1
             /\ timers' = timers + 1
     /\ reconnectAttempts' # reconnectAttempts
          => \/ timers' = timers + 1 /\ reconnectAttempts' = reconnectAttempts + 1
             \/ /\ call'.op = "connection.update" /\ call'.connection = "open"
                /\ reconnectAttempts' = 0
     /\ (call'.op = "connection.update" /\ call'.connection = "open")
          => reconnectAttempts' = 0
     /\ (call'.op = "connection.update" /\ call'.connection = "close"
         /\ call'.lastDisconnect # NoObject
         /\ call'.lastDisconnect.statusCode = "loggedOut")
          => timers' = timers /\ reconnectAttempts' = reconnectAttempts]_vars

\* with the counter at 5 a socket closed for another reason than logout, and no
\* timer was set
C40_Witness ==
  /\ reconnectAttempts = 5
  /\ call.op = "connection.update" /\ call.connection = "close"
  /\ call.lastDisconnect # NoObject /\ call.lastDisconnect.statusCode = "connectionClosed"
  /\ timers = 0 /\ starting = 0

====
